---- MODULE Spec2Model ----
(***************************************************************************)
(* NL-2-sql-App: the query-resolution pipeline (backend/pipeline.py), the  *)
(* safety gate (backend/validator.py), the executor                        *)
(* (backend/executor.py), the SQL generator (backend/sql_generator.py with *)
(* backend/sql_validator.py) and the history ring of the prompting agent   *)
(* (backend/llm_prompt_builder_new.py).                                    *)
(*                                                                         *)
(* An SQL text is a sequence of lexemes (the words sqlparse's lexer        *)
(* produces, whitespace dropped).  Python dicts are functions with the     *)
(* keys that are present as their domain.                                  *)
(***************************************************************************)
EXTENDS Integers, Sequences, FiniteSets, TLC

(***************************************************************************)
(* Bounds                                                                  *)
(***************************************************************************)
MaxSqlLen == 4
MaxRetriesBound == 2
MaxRows == 2
MaxAdds == 5

(***************************************************************************)
(* Lexemes                                                                 *)
(***************************************************************************)
\* the words an SQL text of the model is made of
Alphabet ==
    { "SELECT", "WITH", "DROP", "delete", "TRUNCATE", "(", ")", ";", "1",
      "FROM", "customers", "orders", "full_name", "/*select*/" }

\* str.upper() of one lexeme
Upper(l) ==
    CASE l = "delete" -> "DELETE"
      [] l = "customers" -> "CUSTOMERS"
      [] l = "orders" -> "ORDERS"
      [] l = "full_name" -> "FULL_NAME"
      [] l = "/*select*/" -> "/*SELECT*/"
      [] l = "name" -> "NAME"
      [] l = "branches" -> "BRANCHES"
      [] l = "employees" -> "EMPLOYEES"
      [] l = "created_at" -> "CREATED_AT"
      [] l = "updated_at" -> "UPDATED_AT"
      [] l = "'drop'" -> "'DROP'"
      [] OTHER -> l

\* the lexer's token class of one lexeme
Kind(l) ==
    CASE l \in {"customers", "orders", "full_name", "name", "branches",
                "employees", "ERROR", "created_at", "updated_at"} -> "name"
      [] l \in {"1", "'drop'"} -> "number"
      [] l = "/*select*/" -> "comment"
      [] l \in {"(", ")", ";", ":"} -> "punct"
      [] OTHER -> "keyword"

\* "SELECT" in l.upper(): substring test on one lexeme
HasSelect(l) == Upper(l) \in {"SELECT", "/*SELECT*/"}

\* every SQL text of at most MaxSqlLen lexemes
Sqls == UNION { [1..n -> Alphabet] : n \in 0..MaxSqlLen }

\* single statements that define a CTE and then select from it
\* (tests/test_validator.py, test_validate_with_cte)
CteSqls ==
    { <<"WITH", "orders", "AS", "(", "SELECT", "1", "FROM", "customers", ")",
        "SELECT", "1", "FROM", "orders">>,
      <<"WITH", "orders", "AS", "(", "SELECT", "1", "FROM", "customers", ")",
        "SELECT", "1", "FROM", "orders", ";">> }

\* selects in which a forbidden word occurs only inside an identifier or
\* inside a string literal (tests/test_validator.py,
\* test_validate_with_date_functions)
IdentifierSqls ==
    { <<"SELECT", "created_at", "FROM", "customers">>,
      <<"SELECT", "updated_at", "FROM", "customers">>,
      <<"SELECT", "created_at", "updated_at", "FROM", "customers">>,
      <<"SELECT", "'drop'", "FROM", "customers">> }

(***************************************************************************)
(* Schema handed to ValidatorAgent and the pipeline                        *)
(***************************************************************************)
schema_tables == <<"customers", "accounts">>

SchemaColumns ==
    [t \in {"customers", "accounts"} |->
        IF t = "customers" THEN {"id", "first_name", "last_name"}
        ELSE {"id", "customer_id", "balance"}]

\* table.upper() in l.upper(): substring test on one lexeme
MentionsTable(l, t) == t = "customers" /\ l = "customers"

(***************************************************************************)
(* sqlparse.parse: statement splitting and top-level grouping              *)
(***************************************************************************)
RECURSIVE SplitEnd(_, _, _)
\* index of the last lexeme of the first statement: the first ";" met at
\* split level <= 0 ("(" raises the level, ")" lowers it), else the end
SplitEnd(s, i, level) ==
    IF i > Len(s) THEN Len(s)
    ELSE LET lv == level + (IF s[i] = "(" THEN 1 ELSE IF s[i] = ")" THEN -1 ELSE 0)
         IN IF s[i] = ";" /\ lv <= 0 THEN i ELSE SplitEnd(s, i + 1, lv)

\* parsed[0] as a lexeme sequence (parsed is empty for the empty text)
FirstStatement(s) == SubSeq(s, 1, SplitEnd(s, 1, 0))

RECURSIVE MatchClose(_, _, _)
\* index of the ")" that closes the "(" before position i at depth d, 0 if none
MatchClose(s, i, d) ==
    IF i > Len(s) THEN 0
    ELSE IF s[i] = "(" THEN MatchClose(s, i + 1, d + 1)
    ELSE IF s[i] = ")" THEN (IF d = 1 THEN i ELSE MatchClose(s, i + 1, d - 1))
    ELSE MatchClose(s, i + 1, d)

RECURSIVE CommentRunEnd(_, _)
\* last index of the run of comments that starts at i
CommentRunEnd(s, i) ==
    IF i < Len(s) /\ Kind(s[i + 1]) = "comment" THEN CommentRunEnd(s, i + 1) ELSE i

\* end and class of the raw group starting at i: a matched parenthesis, a run
\* of comments, or one lexeme
RawEnd(s, i) ==
    IF s[i] = "(" /\ MatchClose(s, i + 1, 1) # 0 THEN MatchClose(s, i + 1, 1)
    ELSE IF Kind(s[i]) = "comment" THEN CommentRunEnd(s, i)
    ELSE i

RawKind(s, i) ==
    IF i > Len(s) THEN "end"
    ELSE IF s[i] = "(" /\ MatchClose(s, i + 1, 1) # 0 THEN "paren"
    ELSE Kind(s[i])

RECURSIVE TopSingles(_, _)
\* t.value.upper() of the top-level tokens that are one keyword or
\* punctuation lexeme: outside every matched parenthesis, and of a class no
\* grouping pass merges into a group
TopSingles(s, i) ==
    IF i > Len(s) THEN {}
    ELSE (IF RawEnd(s, i) = i /\ Kind(s[i]) \in {"keyword", "punct"}
          THEN {Upper(s[i])} ELSE {})
         \cup TopSingles(s, RawEnd(s, i) + 1)

\* a name directly followed by a parenthesis is grouped as a Function
IsFunctionAt(s, i) ==
    RawKind(s, i) = "name" /\ RawKind(s, i + 1) = "paren"

\* a name that is not a function name is grouped as an Identifier
IsIdentifierAt(s, i) == RawKind(s, i) = "name" /\ ~IsFunctionAt(s, i)

\* last index of tokens[0]: the first raw group, made a Function with a
\* following parenthesis, extended by an alias Identifier, then by a
\* trailing comment (sqlparse group_functions, group_aliased, align_comments)
FirstTokenEnd(s) ==
    LET e0 == RawEnd(s, 1)
        e1 == IF IsFunctionAt(s, 1) THEN RawEnd(s, e0 + 1) ELSE e0
        aliasable == RawKind(s, 1) \in {"paren", "name", "number"}
        e2 == IF aliasable /\ IsIdentifierAt(s, e1 + 1) THEN e1 + 1 ELSE e1
        isGroup == RawKind(s, 1) \in {"paren", "name"} \/ e2 > e1
        e3 == IF isGroup /\ RawKind(s, e2 + 1) = "comment"
              THEN RawEnd(s, e2 + 1) ELSE e2
    IN e3

\* "SELECT" in tokens[0]
FirstTokenHasSelect(s) == \E i \in 1..FirstTokenEnd(s) : HasSelect(s[i])

(***************************************************************************)
(* Python values                                                           *)
(***************************************************************************)
\* dict.get(k, default)
Get(d, k, def) == IF k \in DOMAIN d THEN d[k] ELSE def

\* the value None where a dict is expected
NoneCtx == [isNone |-> TRUE]

\* truth value of an optional dict: None and {} are falsy
Truthy(c) == "isNone" \notin DOMAIN c /\ DOMAIN c # {}

\* None where an SQL text is expected
NoSql == <<"None">>

Min(a, b) == IF a < b THEN a ELSE b

(***************************************************************************)
(* ValidatorAgent.validate                                                 *)
(***************************************************************************)
forbidden == <<"DROP", "DELETE", "UPDATE", "INSERT", "ALTER">>

ForbiddenMessage(word) ==
    CASE word = "DROP" -> "Forbidden operation detected: DROP"
      [] word = "DELETE" -> "Forbidden operation detected: DELETE"
      [] word = "UPDATE" -> "Forbidden operation detected: UPDATE"
      [] word = "INSERT" -> "Forbidden operation detected: INSERT"
      [] word = "ALTER" -> "Forbidden operation detected: ALTER"

\* indexes of the forbidden words found by "word in tokens"
ForbiddenHits(stmt) ==
    { k \in 1..Len(forbidden) : forbidden[k] \in TopSingles(stmt, 1) }

\* the tables whose upper-cased name occurs in sql.upper(), in schema order
TablesFound(s) ==
    SelectSeq(schema_tables, LAMBDA t : \E i \in 1..Len(s) : MentionsTable(s[i], t))

\* a result that rejects the text that names no known table
NoKnownTablesRejected ==
    [is_valid |-> FALSE, error |-> "No known tables referenced"]
\* lines 56-61: the result for a text that names no known table
NoKnownTables ==
    [is_valid |-> TRUE, warning |-> "No known tables referenced", tables_used |-> <<>>]

validate(s) ==
    IF s = <<>> THEN [is_valid |-> FALSE, error |-> "Invalid SQL syntax"]
    ELSE LET stmt == FirstStatement(s)
             hits == ForbiddenHits(stmt)
         IN IF ~FirstTokenHasSelect(stmt)
            THEN [is_valid |-> FALSE, error |-> "Only SELECT statements are allowed"]
            ELSE IF hits # {}
            THEN [is_valid |-> FALSE,
                  error |-> ForbiddenMessage(
                      forbidden[CHOOSE k \in hits : \A j \in hits : k <= j])]
            ELSE IF TablesFound(s) = <<>>
            THEN NoKnownTables
            ELSE [is_valid |-> TRUE, tables_used |-> TablesFound(s)]

(***************************************************************************)
(* ExecutorAgent.run_query                                                 *)
(***************************************************************************)
sql_row_limit == 200

\* what the database does with a statement: fails to connect, fails to
\* execute it, or yields nrows rows (a few, or more than the row limit)
EngineOutcomes ==
    { [kind |-> "connect_error", msg |-> "unable to open database file"] }
    \cup { [kind |-> "error", msg |-> m] :
             m \in {"no such column: full_name", "no such table: orders"} }
    \cup { [kind |-> "ok", nrows |-> n] : n \in 0..MaxRows \cup {sql_row_limit + 1} }

\* a text with something other than comments after a ";"
MultiStatement(s) ==
    \E i, j \in 1..Len(s) : i < j /\ s[i] = ";" /\ Kind(s[j]) # "comment"

\* cursor.execute on a text of several statements: sqlite3.Warning, which
\* is not an sqlite3.Error (Python up to 3.11), or
\* sqlite3.ProgrammingError, which is one (from 3.12 on)
MultiStatementOutcomes ==
    { [kind |-> "warning", msg |-> "You can only execute one statement at a time."],
      [kind |-> "error", msg |-> "You can only execute one statement at a time."] }

\* what the database can do with the text s
Engines(s) ==
    IF MultiStatement(s)
    THEN { e \in EngineOutcomes : e.kind # "ok" } \cup MultiStatementOutcomes
    ELSE EngineOutcomes

\* RowsFetched that returns every row of the result
RowsFetchedAll(nrows, limit) == nrows

\* len(cursor.fetchmany(limit))
RowsFetched(nrows, limit) == Min(nrows, limit)

\* result of run_query and what it did to the database; raised: an
\* exception that is not an sqlite3.Error left run_query
run_query(s, limit, validation_context, engine) ==
    IF Truthy(validation_context) /\ ~Get(validation_context, "is_valid", FALSE)
    THEN [res |-> [success |-> FALSE, error |-> "Query failed validation"],
          connects |-> 0, executed |-> <<>>, closed |-> 0, raised |-> FALSE]
    ELSE IF engine.kind = "connect_error"
    THEN [res |-> [success |-> FALSE, error |-> engine.msg],
          connects |-> 0, executed |-> <<>>, closed |-> 0, raised |-> FALSE]
    ELSE IF engine.kind = "error"
    THEN [res |-> [success |-> FALSE, error |-> engine.msg],
          connects |-> 1, executed |-> <<s>>, closed |-> 0, raised |-> FALSE]
    ELSE IF engine.kind = "warning"
    THEN [res |-> <<>>,
          connects |-> 1, executed |-> <<s>>, closed |-> 0, raised |-> TRUE]
    ELSE IF RowsFetched(engine.nrows, limit) = 0
    THEN [res |-> [success |-> TRUE, results |-> 0, message |-> "No results found"],
          connects |-> 1, executed |-> <<s>>, closed |-> 1, raised |-> FALSE]
    ELSE [res |-> [success |-> TRUE, results |-> RowsFetched(engine.nrows, limit)],
          connects |-> 1, executed |-> <<s>>, closed |-> 1, raised |-> FALSE]

(***************************************************************************)
(* Metadata: what MetadataLoader holds after loading.  A table is a record *)
(* of its name and its columns that carry distinct_values; a missing file  *)
(* leaves {"tables": {}}.                                                  *)
(***************************************************************************)
NoMetadata == <<>>

BankMetadata ==
    << [name |-> "customers", columns |-> <<>>],
       [name |-> "accounts",
        columns |-> << [col |-> "type", distinct_values |-> <<"checking">>] >>] >>

Metadatas == {NoMetadata, BankMetadata}

\* metadata.get('tables', {}) keys, in order
MetadataTables(md) == [i \in 1..Len(md) |-> md[i].name]

Range(q) == {q[i] : i \in 1..Len(q)}

\* MetadataLoader.get_distinct_values(table, column)
get_distinct_values(md, table, column) ==
    IF \E i \in 1..Len(md) : md[i].name = table
                             /\ \E j \in 1..Len(md[i].columns) : md[i].columns[j].col = column
    THEN LET i == CHOOSE i \in 1..Len(md) : md[i].name = table
             j == CHOOSE j \in 1..Len(md[i].columns) : md[i].columns[j].col = column
         IN md[i].columns[j].distinct_values
    ELSE <<>>

(***************************************************************************)
(* Questions: a question is its words, which the text joins with blanks;   *)
(* the word " " is extra white space.                                      *)
(***************************************************************************)
MaxQLen == 3

Words == {"show", " ", "customers", "customer", "accounts", "checking",
          "recent", "last", "q1", "2024", "rich"}

NlQueries == UNION { [1..n -> Words] : n \in 0..MaxQLen }

\* the substrings of a word that the planner looks for
Subs(w) ==
    CASE w = "customers" -> {"customers", "customer"}
      [] w = "accounts"  -> {"accounts", "account", "count"}
      [] OTHER           -> {w}

\* sub in text.lower()
In(sub, q) == \E i \in 1..Len(q) : sub \in Subs(q[i])

\* not nl_query or not nl_query.strip()
Blank(q) == \A i \in 1..Len(q) : q[i] = " "

\* re.search(r"\b(20\d{2}|202\d)\b", text)
HasYear(q) == In("2024", q)

\* re.search(r"\b\d{2,}\b", text)
HasNumber(q) == In("2024", q)

(***************************************************************************)
(* PlannerAgent                                                            *)
(***************************************************************************)
RECURSIVE Select(_, _)
\* [t for t in tables if t in keep]
Select(tables, keep) ==
    IF tables = <<>> THEN <<>>
    ELSE IF Head(tables) \in keep
         THEN <<Head(tables)>> \o Select(Tail(tables), keep)
         ELSE Select(Tail(tables), keep)

RECURSIVE Unique(_)
\* list(dict.fromkeys(found))
Unique(found) ==
    IF found = <<>> THEN <<>>
    ELSE LET rest == Unique(SubSeq(found, 1, Len(found) - 1))
         IN IF found[Len(found)] \in Range(rest) THEN rest
            ELSE Append(rest, found[Len(found)])

\* the schema tables named in the text
DirectMentions(q) == Select(schema_tables, {t \in Range(schema_tables) : In(t, q)})

\* the metadata tables one of whose distinct values is in the text
ValueMentions(q, md) ==
    Select(MetadataTables(md),
           {md[i].name : i \in {i \in 1..Len(md) :
               \E j \in 1..Len(md[i].columns) :
                   \E v \in Range(md[i].columns[j].distinct_values) : In(v, q)}})

\* the schema tables whose name holds a heuristic word of the text
HeuristicMatches(q) ==
    (IF In("customer", q) THEN Select(schema_tables, {"customers"}) ELSE <<>>)
    \o (IF In("account", q) THEN Select(schema_tables, {"accounts"}) ELSE <<>>)

\* a fallback that names no table
FallbackNone(tables) == <<>>
\* what _detect_tables returns when nothing was found
FallbackTables(tables) == tables

detect_tables(q, md) ==
    LET found == DirectMentions(q) \o ValueMentions(q, md)
        all == IF found = <<>> THEN HeuristicMatches(q) ELSE found
    IN IF Unique(all) # <<>> THEN Unique(all) ELSE FallbackTables(schema_tables)

detect_capabilities(q, md) ==
    (IF In("count", q) THEN {"aggregate"} ELSE {})
    \cup (IF In("q1", q) \/ In("last", q) \/ In("2024", q) THEN {"date_filter"} ELSE {})
    \cup (IF \E v \in Range(get_distinct_values(md, "accounts", "type")) : In(v, q)
          THEN {"account_type_filter"} ELSE {})

\* one clarification: its field and its default
Clarification(field, default) == [field |-> field, default |-> default]

detect_clarifications(q, md) ==
    (IF In("rich", q) /\ ~HasNumber(q)
     THEN <<Clarification("min_balance", "20000")>> ELSE <<>>)
    \o (IF In("recent", q) \/ (In("last", q) /\ ~HasYear(q))
        THEN <<Clarification("date_range", "last 30 days")>> ELSE <<>>)
    \o (IF In("q1", q)
        THEN <<Clarification("date_range", "2025-01-01..2025-03-31")>> ELSE <<>>)
    \o (IF In("account", q)
           /\ ~\E v \in Range(get_distinct_values(md, "accounts", "type")) : In(v, q)
        THEN <<Clarification("account_type", "checking")>> ELSE <<>>)

\* an empty plan that names no table
EmptyPlanNoTables(tables) ==
    [tables |-> <<>>, capabilities |-> {}, clarifications |-> <<>>]
\* the plan for a question without words
EmptyPlan(tables) ==
    [tables |-> tables, capabilities |-> {}, clarifications |-> <<>>]

analyze_query(q, md) ==
    IF Blank(q)
    THEN EmptyPlan(schema_tables)
    ELSE [tables |-> detect_tables(q, md),
          capabilities |-> detect_capabilities(q, md),
          clarifications |-> detect_clarifications(q, md)]

(***************************************************************************)
(* RetrieverAgent                                                          *)
(***************************************************************************)
n_results == 3

\* a document of the schema collection and the table its metadata names
\* ("None": the metadata has no table)
Hits == [doc : {"chunk"}, table : {"customers", "accounts", "None"}]

\* what schema_collection.query does: it raises, or returns up to
\* n_results documents with their metadatas
IndexOutcomes ==
    {[kind |-> "raises"]}
    \cup {[kind |-> "ok", hits |-> h] : h \in UNION {[1..n -> Hits] : n \in 0..n_results}}

\* a test of the query result that never sees an empty one
IndexEmptyNever(index) == FALSE
\* not results["documents"] or not results["documents"][0]
IndexEmpty(index) == index.hits = <<>>

\* "- <col>: Valid values = ..." for the columns with distinct values
ValueLines(table, columns) ==
    [j \in 1..Len(columns) |->
        [kind |-> "values", table |-> table, col |-> columns[j].col,
         values |-> columns[j].distinct_values]]

RECURSIVE FallbackContext(_)
\* the schema_context of _get_fallback_schema: for each table of the
\* metadata its "Table '<name>': <description>" and then its value lines
FallbackContext(md) ==
    IF md = <<>> THEN <<>>
    ELSE <<[kind |-> "table", table |-> Head(md).name]>>
         \o ValueLines(Head(md).name, Head(md).columns)
         \o FallbackContext(Tail(md))

get_fallback_schema(md) ==
    [schema_context |-> FallbackContext(md),
     tables_found |-> MetadataTables(md),
     metadata |-> <<>>]

\* the tables named by the metadatas of the hits
HitTables(hits) == {hits[i].table : i \in 1..Len(hits)} \ {"None"}

\* the orders in which a set of tables can be iterated
Orders(S) == {o \in [1..Cardinality(S) -> S] : Range(o) = S}

RECURSIVE EnhancedContext(_, _)
\* "Table '<t>' metadata:" and the value lines of each found table that the
\* metadata knows
EnhancedContext(order, md) ==
    IF order = <<>> THEN <<>>
    ELSE LET t == Head(order)
             known == \E i \in 1..Len(md) : md[i].name = t
             info == md[CHOOSE i \in 1..Len(md) : md[i].name = t]
         IN (IF known
             THEN <<[kind |-> "header", table |-> t]>> \o ValueLines(t, info.columns)
             ELSE <<>>)
            \o EnhancedContext(Tail(order), md)

\* fetch_schema_context; order is the iteration order of the set tables_found
fetch_schema_context(index, md, order) ==
    IF index.kind = "raises" THEN get_fallback_schema(md)
    ELSE IF IndexEmpty(index) THEN get_fallback_schema(md)
    ELSE [schema_context |->
              [i \in 1..Len(index.hits) |-> [kind |-> "doc", table |-> index.hits[i].table]]
              \o EnhancedContext(order, md),
          tables_found |-> order,
          metadata |-> [i \in 1..Len(index.hits) |-> index.hits[i].table]]

(***************************************************************************)
(* SummarizerAgent                                                         *)
(***************************************************************************)
\* the words of the questions given to summarize
SummaryWords ==
    {"show", "branch", "employee", "salary", "account", "balance", "transaction"}

MaxSummaryQLen == 2

SummaryQueries == UNION { [1..n -> SummaryWords] : n \in 1..MaxSummaryQLen }

\* the execution results given to summarize: what run_query returns (the
\* rows as their number), a result without a success key, and a successful
\* one without a results key
ExecutionResults ==
    { [success |-> FALSE, error |-> m] :
          m \in {"no such table: orders", "no such column: full_name"} }
    \cup { [success |-> TRUE, results |-> n] : n \in 1..MaxRows }
    \cup { [success |-> TRUE, results |-> 0, message |-> "No results found"],
           [success |-> TRUE, row_count |-> 0],
           [error |-> "unknown"] }

\* a failure answer with two suggestions
FailureSuggestionsTwo ==
    << "Try rephrasing your question", "Check if the table names are correct" >>
\* lines 18-22
FailureSuggestions ==
    << "Try rephrasing your question", "Check if the table names are correct",
       "Make sure you're asking about existing data" >>

\* lines 29-33
NoResultsSuggestions ==
    << "Try broadening your search criteria",
       "Check if the data exists in the database",
       "Try a different time period or category" >>

\* word in query.lower()
Mentions(q, word) == \E i \in 1..Len(q) : q[i] = word

\* the heading and the suggestions of the insights for a result with rows
Insights(q) ==
    CASE Mentions(q, "branch") ->
            [heading |-> "Branch Analysis",
             suggestions |-> << "Show me branches without managers",
                                "Which branch has the most employees?",
                                "Show me branch performance by transaction volume",
                                "List branches by city" >>]
      [] ~Mentions(q, "branch")
         /\ (Mentions(q, "employee") \/ Mentions(q, "salary")) ->
            [heading |-> "Employee Analysis",
             suggestions |-> << "Show me the highest paid employees",
                                "What's the average salary by position?",
                                "Show me employees hired in the last year",
                                "Which employees handle the most transactions?" >>]
      [] ~Mentions(q, "branch") /\ ~Mentions(q, "employee") /\ ~Mentions(q, "salary")
         /\ (Mentions(q, "account") \/ Mentions(q, "balance")) ->
            [heading |-> "Account Analysis",
             suggestions |-> << "Show me accounts with high balances",
                                "What's the average balance by account type?",
                                "Show me recently opened accounts",
                                "Which accounts have the most transactions?" >>]
      [] ~Mentions(q, "branch") /\ ~Mentions(q, "employee") /\ ~Mentions(q, "salary")
         /\ ~Mentions(q, "account") /\ ~Mentions(q, "balance")
         /\ Mentions(q, "transaction") ->
            [heading |-> "Transaction Analysis",
             suggestions |-> << "Show me high-value transactions",
                                "What's the average transaction amount by type?",
                                "Show me today's transactions",
                                "Which accounts have the most transactions?" >>]
      [] OTHER ->
            [heading |-> "Query Results",
             suggestions |-> << "Show me the count of rows by table",
                                "What are the most common values?",
                                "Show me the data distribution",
                                "Can you explain the patterns in this data?" >>]

\* summarize(query, execution_result): the summary as its heading, the
\* question and the error or the number of rows it names
summarize(q, execution_result) ==
    IF ~Get(execution_result, "success", FALSE)
    THEN [summary |-> [heading |-> "Query Failed", question |-> q,
                       error |-> Get(execution_result, "error", "None")],
          suggestions |-> FailureSuggestions]
    ELSE IF Get(execution_result, "results", 0) = 0
    THEN [summary |-> [heading |-> "No Results Found", question |-> q],
          suggestions |-> NoResultsSuggestions]
    ELSE [summary |-> [heading |-> Insights(q).heading, question |-> q,
                       found |-> execution_result.results],
          suggestions |-> Insights(q).suggestions]

(***************************************************************************)
(* State                                                                   *)
(***************************************************************************)
VARIABLES
    pc,                 \* position of run: the stage it is about to call
    max_retries,        \* PipelineConfig.max_retries
    sql,                \* run's local sql
    attempts,           \* run's local attempts
    last_error,         \* run's local last_error
    hint,               \* reason / err of the last failed attempt, the hint of repair_sql
    validation_result,  \* run's local validation_result
    exec_result,        \* run's local exec_result
    diag,               \* PipelineDiagnostics
    result,             \* what run returned
    trace,              \* the stage calls run made, in order
    db,                 \* connections opened and closed, statements executed
    cOp,                \* component called directly: idle, validate, run_query
    cSql,               \* its sql argument
    cCtx,               \* its validation_context argument
    cOut,               \* its return value
    cLimit,             \* the limit argument of run_query
    cEngine,            \* what the database or the index did during that call
    context,            \* PromptingAgent.context: None or its query_history
    added,              \* the entries given to add_query_to_history so far
    gen,                \* the generate / repair_sql call in progress
    glog,               \* the LLM calls and fallback stages of that call
    metadata,           \* MetadataLoader.metadata['tables']
    nl_query,           \* the question given to run or to analyze_query
    plan,               \* what analyze_query returned
    tasks,              \* the concurrent calls on shared instances: their positions and locals
    shared              \* the attributes of the shared generator that generate writes

vars == <<pc, max_retries, sql, attempts, last_error, hint, validation_result,
          exec_result, diag, result, trace, db, cOp, cSql, cCtx, cOut,
          cLimit, cEngine,
          context, added, gen, glog, metadata, nl_query, plan, tasks, shared>>

pipeVars == <<pc, max_retries, sql, attempts, last_error, hint,
              validation_result, exec_result, diag, result, trace>>

compVars == <<cOp, cSql, cCtx, cOut, cLimit, cEngine>>

genVars == <<context, added, gen, glog>>

planVars == <<metadata, nl_query, plan>>

taskVars == <<tasks, shared>>

\* the SQL texts the generator stage hands to run
GenSqls ==
    { <<"SELECT", "1", "FROM", "customers">>,
      <<"SELECT", "full_name", "FROM", "customers">>,
      <<"SELECT", "1", "FROM", "orders">>,
      <<"SELECT", "1", ";">>,
      <<"DROP", "customers">>,
      <<"SELECT", "(", "delete", ")">>,
      <<"SELECT", "1", ";", "DROP", "customers">>,
      <<>> }

\* the questions given to run
RunQueries == {<<>>, <<" ">>, <<"show", "customers">>, <<"checking">>}

Event(stage, s, ok) == [stage |-> stage, sql |-> s, ok |-> ok]

PipelineDiagnostics ==
    [retries |-> 0, validator_fail_reasons |-> <<>>, executor_errors |-> <<>>,
     generated_sql |-> NoSql, final_sql |-> NoSql, chosen_tables |-> <<>>]

InitDb == [connects |-> 0, closed |-> 0, executed |-> <<>>]

InitPipe ==
    /\ pc = "plan"
    /\ sql = NoSql
    /\ attempts = 0
    /\ last_error = "None"
    /\ hint = "None"
    /\ validation_result = <<>>
    /\ exec_result = <<>>
    /\ diag = PipelineDiagnostics
    /\ result = <<>>
    /\ trace = <<>>

\* no question asked: the loader has read the metadata file
InitPlan ==
    /\ metadata = BankMetadata
    /\ nl_query = <<>>
    /\ plan = <<>>

\* no concurrent call: generate has not yet stored anything on the generator
InitTasks ==
    /\ tasks = <<>>
    /\ shared = <<>>

InitComp ==
    /\ cOp = "idle"
    /\ cSql = NoSql
    /\ cCtx = NoneCtx
    /\ cOut = <<>>
    /\ cLimit = 0
    /\ cEngine = <<>>

\* the prompt local of _try_llm_generation before its first assignment
UnboundPrompt == [bound |-> FALSE]

\* a stage of the generator entered, or an LLM call made with a prompt
GenEvent(ev, attempt, prompt) == [ev |-> ev, attempt |-> attempt, prompt |-> prompt]

\* no generate or repair_sql call in progress; the fields are the arguments
\* and locals of the call and of _try_llm_generation
GenIdle ==
    [pc |-> "idle", op |-> "none", question |-> "other", tables_known |-> TRUE,
     clarified_values |-> <<>>,
     hint |-> "None", previous_sql |-> NoSql,
     attempts_left |-> 0, attempt_number |-> 1, current_sql |-> NoSql,
     error_context |-> "None", prompt |-> UnboundPrompt,
     llm_success |-> FALSE, out |-> NoSql]

InitGen ==
    /\ context = NoneCtx
    /\ added = <<>>
    /\ gen = GenIdle
    /\ glog = <<>>

Init ==
    /\ max_retries \in 0..MaxRetriesBound
    /\ metadata \in Metadatas
    /\ nl_query \in RunQueries
    /\ plan = <<>>
    /\ InitPipe
    /\ InitComp
    /\ InitTasks
    /\ InitGen
    /\ db = InitDb

(***************************************************************************)
(* NL2SQLPipeline.run                                                      *)
(***************************************************************************)
\* LoopPc that enters the loop body at the executor call
LoopPcSkipValidate(a) == IF a <= max_retries THEN "execute" ELSE "failed"

\* the while condition of run
LoopPc(a) == IF a <= max_retries THEN "validate" ELSE "failed"

\* planner.analyze_query returned
Plan ==
    /\ pc = "plan"
    /\ plan' = analyze_query(nl_query, metadata)
    /\ diag' = [diag EXCEPT !.chosen_tables = plan'.tables]
    /\ trace' = Append(trace, Event("plan", NoSql, TRUE))
    /\ pc' = "retrieve"
    /\ UNCHANGED <<max_retries, taskVars, metadata, nl_query, sql, attempts, last_error, hint,
                   validation_result, exec_result, result, db, compVars, genVars>>

\* retriever.fetch_schema_context returned
Retrieve ==
    /\ pc = "retrieve"
    /\ trace' = Append(trace, Event("retrieve", NoSql, TRUE))
    /\ pc' = "generate"
    /\ UNCHANGED <<max_retries, taskVars, planVars, sql, attempts, last_error, hint,
                   validation_result, exec_result, diag, result, db, compVars, genVars>>

\* generator.generate returned one of the texts
GenerateFrom(texts) ==
    /\ pc = "generate"
    /\ \E s \in texts :
          /\ sql' = s
          /\ diag' = [diag EXCEPT !.generated_sql = s]
          /\ trace' = Append(trace, Event("generate", s, TRUE))
    /\ attempts' = 0
    /\ last_error' = "None"
    /\ pc' = LoopPc(0)
    /\ UNCHANGED <<max_retries, taskVars, planVars, hint, validation_result, exec_result, result,
                   db, compVars, genVars>>

\* generator.generate returned an SQL text
Generate == GenerateFrom(GenSqls)

\* AfterFailure without the break
AfterFailureNoBreak(a) == "repair"

\* pc after a failed attempt: break when the budget is used up, else repair
AfterFailure(a) == IF a > max_retries THEN "failed" ELSE "repair"

\* Rejected that lets every verdict through
RejectedNever(v) == FALSE

\* not validation_result.get("is_valid", False)
Rejected(v) == ~Get(v, "is_valid", FALSE)

\* Bump that counts a failed attempt twice
BumpTwice(a) == a + 2

\* attempts += 1
Bump(a) == a + 1

\* validator.validate returned; a rejection is recorded and counted
Validate ==
    /\ pc = "validate"
    /\ LET v == validate(sql)
           reason == Get(v, "error", "unknown validation error")
       IN /\ validation_result' = v
          /\ trace' = Append(trace, Event("validate", sql, Get(v, "is_valid", FALSE)))
          /\ IF Rejected(v)
             THEN /\ diag' = [diag EXCEPT
                                !.validator_fail_reasons = Append(@, reason),
                                !.retries = Bump(attempts)]
                  /\ attempts' = Bump(attempts)
                  /\ hint' = reason
                  /\ pc' = AfterFailure(Bump(attempts))
             ELSE /\ pc' = "execute"
                  /\ UNCHANGED <<diag, attempts, hint>>
    /\ UNCHANGED <<max_retries, taskVars, planVars, sql, last_error, exec_result, result, db, compVars, genVars>>

\* generator.repair_sql returned an SQL text
RepairFrom(texts) ==
    /\ pc = "repair"
    /\ \E s \in texts :
          /\ sql' = s
          /\ trace' = Append(trace, Event("repair", s, TRUE))
    /\ pc' = LoopPc(attempts)
    /\ UNCHANGED <<max_retries, taskVars, planVars, attempts, last_error, hint, validation_result,
                   exec_result, diag, result, db, compVars, genVars>>

Repair == RepairFrom(GenSqls)

\* diagnostics that never get a final_sql
SetFinalSqlNever(d, s) == d
\* line 139: diag.final_sql = sql
SetFinalSql(d, s) == [d EXCEPT !.final_sql = s]

\* executor.run_query returned; a failure is recorded and counted
Execute ==
    /\ pc = "execute"
    /\ \E engine \in Engines(sql) :
         LET r == run_query(sql, sql_row_limit, validation_result, engine)
             err == Get(r.res, "error", "unknown")
         IN /\ db' = [connects |-> db.connects + r.connects,
                      closed |-> db.closed + r.closed,
                      executed |-> db.executed \o r.executed]
            /\ trace' = Append(trace, Event("execute", sql, Get(r.res, "success", FALSE)))
            /\ IF r.raised
               THEN /\ pc' = "raised"
                    /\ UNCHANGED <<exec_result, diag, attempts, last_error, hint>>
               ELSE IF Get(r.res, "success", FALSE)
               THEN /\ exec_result' = r.res
                    /\ diag' = [SetFinalSql(diag, sql) EXCEPT !.retries = attempts]
                    /\ pc' = "summarize"
                    /\ UNCHANGED <<attempts, last_error, hint>>
               ELSE /\ exec_result' = r.res
                    /\ diag' = [diag EXCEPT
                                  !.executor_errors = Append(@, err),
                                  !.retries = Bump(attempts)]
                    /\ last_error' = err
                    /\ attempts' = Bump(attempts)
                    /\ hint' = err
                    /\ pc' = AfterFailure(Bump(attempts))
    /\ UNCHANGED <<max_retries, taskVars, planVars, sql, validation_result, result, compVars, genVars>>

\* summarizer.summarize returned and run returns the success envelope
Summarize ==
    /\ pc = "summarize"
    /\ trace' = Append(trace, Event("summarize", sql, TRUE))
    /\ result' = [success |-> TRUE, sql |-> sql, summary |-> "summary",
                  generated_sql |-> diag.generated_sql,
                  tables_used |-> diag.chosen_tables,
                  retries |-> diag.retries,
                  table |-> Get(exec_result, "results", 0),
                  execution_message |-> Get(exec_result, "message", "")]
    /\ pc' = "returned"
    /\ UNCHANGED <<max_retries, taskVars, planVars, sql, attempts, last_error, hint,
                   validation_result, exec_result, diag, db, compVars, genVars>>

\* run leaves the loop and returns the failure envelope
ReturnFailure ==
    /\ pc = "failed"
    /\ result' = [success |-> FALSE,
                  error |-> IF last_error # "None" THEN last_error
                            ELSE "Could not produce safe SQL",
                  sql |-> sql,
                  tables_attempted |-> diag.chosen_tables]
    /\ pc' = "returned"
    /\ UNCHANGED <<max_retries, taskVars, planVars, sql, attempts, last_error, hint,
                   validation_result, exec_result, diag, trace, db, compVars, genVars>>

Stages == {"plan", "retrieve", "generate", "validate", "repair", "execute", "summarize"}

\* the stage run is calling raises: run has no handler, the exception
\* leaves run and nothing is returned
StageRaises ==
    /\ pc \in Stages
    /\ trace' = Append(trace, Event(pc, sql, FALSE))
    /\ pc' = "raised"
    /\ UNCHANGED <<max_retries, taskVars, planVars, sql, attempts, last_error, hint,
                   validation_result, exec_result, diag, result, db, compVars, genVars>>

Next ==
    \/ Plan
    \/ Retrieve
    \/ Generate
    \/ Validate
    \/ Repair
    \/ Execute
    \/ Summarize
    \/ ReturnFailure
    \/ StageRaises

Spec == Init /\ [][Next]_vars

(***************************************************************************)
(* ValidatorAgent.validate called on its own, on every bounded SQL text    *)
(***************************************************************************)
ValidatorInit ==
    /\ max_retries = MaxRetriesBound
    /\ InitPipe
    /\ InitPlan
    /\ InitTasks
    /\ db = InitDb
    /\ cOp = "idle"
    /\ cSql \in Sqls \cup CteSqls \cup IdentifierSqls
    /\ cCtx = NoneCtx
    /\ cOut = <<>>
    /\ cLimit = 0
    /\ cEngine = <<>>
    /\ InitGen

CallValidate ==
    /\ cOp = "idle"
    /\ cOp' = "validate"
    /\ cOut' = validate(cSql)
    /\ UNCHANGED <<cSql, cCtx, cLimit, cEngine, db, max_retries, taskVars, planVars, pipeVars, genVars>>

ValidatorNext == CallValidate

ValidatorSpec == ValidatorInit /\ [][ValidatorNext]_vars

(***************************************************************************)
(* ExecutorAgent.run_query called on its own                               *)
(***************************************************************************)
\* the validation_context arguments: None, dicts with and without is_valid,
\* and what validate returns for the text
Contexts(s) ==
    { NoneCtx, <<>>,
      [is_valid |-> FALSE, error |-> "Invalid SQL syntax"],
      [error |-> "Invalid SQL syntax"],
      [is_valid |-> TRUE, tables_used |-> <<>>],
      validate(s) }

\* the limit arguments of the two callers of run_query
Limits == {1, sql_row_limit}

ExecutorInit ==
    /\ max_retries = MaxRetriesBound
    /\ InitPipe
    /\ InitPlan
    /\ InitTasks
    /\ db = InitDb
    /\ cOp = "idle"
    /\ cSql \in GenSqls
    /\ cCtx = NoneCtx
    /\ cOut = <<>>
    /\ cLimit = 0
    /\ cEngine = <<>>
    /\ InitGen

CallRunQuery ==
    /\ cOp = "idle"
    /\ \E ctx \in Contexts(cSql), limit \in Limits, engine \in Engines(cSql) :
         LET r == run_query(cSql, limit, ctx, engine)
         IN /\ cCtx' = ctx
            /\ cLimit' = limit
            /\ cEngine' = engine
            /\ cOut' = r.res
            /\ cOp' = IF r.raised THEN "run_query raised" ELSE "run_query"
            /\ db' = [connects |-> db.connects + r.connects,
                      closed |-> db.closed + r.closed,
                      executed |-> db.executed \o r.executed]
    /\ UNCHANGED <<cSql, max_retries, taskVars, planVars, pipeVars, genVars>>

ExecutorNext == CallRunQuery

ExecutorSpec == ExecutorInit /\ [][ExecutorNext]_vars

(***************************************************************************)
(* PromptingAgent: the context and its history ring                        *)
(***************************************************************************)
max_history == 3

\* "SELECT 1;"
SelectOne == <<"SELECT", "1", ";">>

\* the QueryHistory entries the callers add (the fields that differ)
HistoryEntries ==
    [generated_sql : {SelectOne, <<"SELECT", "1", "FROM", "customers">>},
     was_successful : BOOLEAN]

\* Evict that drops the newest entry
EvictNewest(h) == IF Len(h) > max_history THEN SubSeq(h, 1, Len(h) - 1) ELSE h

\* if len(query_history) > max_history: query_history.pop(0)
Evict(h) == IF Len(h) > max_history THEN Tail(h) ELSE h

\* the history after add_query_to_history on an initialized context
add_query_to_history(h, e) == Evict(Append(h, e))

\* initialize_context: a new context with an empty history
InitializeContext ==
    /\ cOp \in {"idle", "initialize_context", "add_query_to_history"}
    /\ cOp' = "initialize_context"
    /\ cOut' = [raised |-> FALSE]
    /\ context' = [query_history |-> <<>>]
    /\ added' = <<>>
    /\ UNCHANGED <<cSql, cCtx, cLimit, cEngine, db, max_retries, taskVars, planVars, pipeVars, gen, glog>>

\* add_query_to_history: raises ValueError without a context
AddQueryToHistory ==
    /\ cOp \in {"idle", "initialize_context", "add_query_to_history"}
    /\ Len(added) < MaxAdds
    /\ cOp' = "add_query_to_history"
    /\ \E e \in HistoryEntries :
          IF "isNone" \in DOMAIN context
          THEN /\ cOut' = [raised |-> TRUE]
               /\ UNCHANGED <<context, added>>
          ELSE /\ cOut' = [raised |-> FALSE]
               /\ context' = [context EXCEPT
                                !.query_history = add_query_to_history(@, e)]
               /\ added' = Append(added, e)
    /\ UNCHANGED <<cSql, cCtx, cLimit, cEngine, db, max_retries, taskVars, planVars, pipeVars, gen, glog>>

HistoryInit ==
    /\ max_retries = MaxRetriesBound
    /\ InitPipe
    /\ InitPlan
    /\ InitComp
    /\ InitTasks
    /\ InitGen
    /\ db = InitDb

HistoryNext == InitializeContext \/ AddQueryToHistory

HistorySpec == HistoryInit /\ [][HistoryNext]_vars

(***************************************************************************)
(* SQLValidator.validate_sql, the generator's own gate                     *)
(***************************************************************************)
DANGEROUS_KEYWORDS ==
    { "DROP", "DELETE", "TRUNCATE", "UPDATE", "INSERT", "ALTER", "CREATE",
      "MODIFY", "RENAME", "REPLACE", "GRANT", "REVOKE" }

\* the dangerous keywords that are substrings of l.upper()
KeywordsIn(l) ==
    CASE l = "created_at" -> {"CREATE"}
      [] l = "updated_at" -> {"UPDATE"}
      [] l = "'drop'" -> {"DROP"}
      [] OTHER -> {Upper(l)} \cap DANGEROUS_KEYWORDS

\* the keywords found by "keyword in sql_upper"
DangerousHits(s) == UNION { KeywordsIn(s[i]) : i \in 1..Len(s) }

\* f"Dangerous keyword '{keyword}' found in query"
DangerousMessage(keyword) ==
    CASE keyword = "DROP" -> "Dangerous keyword 'DROP' found in query"
      [] keyword = "DELETE" -> "Dangerous keyword 'DELETE' found in query"
      [] keyword = "TRUNCATE" -> "Dangerous keyword 'TRUNCATE' found in query"
      [] keyword = "CREATE" -> "Dangerous keyword 'CREATE' found in query"
      [] keyword = "UPDATE" -> "Dangerous keyword 'UPDATE' found in query"

\* _has_valid_identifiers: FROM or JOIN followed by a word
HasValidIdentifiers(s) ==
    \E i \in 1..(Len(s) - 1) :
        /\ Upper(s[i]) \in {"FROM", "JOIN"}
        /\ Kind(s[i + 1]) \in {"name", "keyword"}

\* f"SQL execution error: {str(e)}"
ExecutionErrorMessage(msg) ==
    CASE msg = "no such column: full_name" ->
            "SQL execution error: no such column: full_name"
      [] msg = "no such table: orders" ->
            "SQL execution error: no such table: orders"
      [] msg = "unable to open database file" ->
            "SQL execution error: unable to open database file"

\* sql.strip(';') + ' LIMIT 1' (no text of the model holds LIMIT)
TestSql(s) ==
    (IF Len(s) > 0 /\ s[Len(s)] = ";" THEN SubSeq(s, 1, Len(s) - 1) ELSE s)
        \o <<"LIMIT", "1">>

\* _test_execution: the connection of the with statement is never closed
test_execution(s, engine) ==
    IF engine.kind = "connect_error"
    THEN [is_valid |-> FALSE, error |-> ExecutionErrorMessage(engine.msg),
          connects |-> 0, executed |-> <<>>]
    ELSE IF engine.kind = "error"
    THEN [is_valid |-> FALSE, error |-> ExecutionErrorMessage(engine.msg),
          connects |-> 1, executed |-> <<TestSql(s)>>]
    ELSE [is_valid |-> TRUE, error |-> "None",
          connects |-> 1, executed |-> <<TestSql(s)>>]

\* validate_sql(sql): (is_valid, error_message) and what it did to the
\* database
validate_sql(s, engine) ==
    IF s = <<>>
    THEN [is_valid |-> FALSE, error |-> "Empty SQL query",
          connects |-> 0, executed |-> <<>>]
    ELSE IF DangerousHits(s) # {}
    THEN [is_valid |-> FALSE,
          error |-> DangerousMessage(CHOOSE k \in DangerousHits(s) : TRUE),
          connects |-> 0, executed |-> <<>>]
    ELSE IF Upper(s[1]) # "SELECT"
    THEN [is_valid |-> FALSE, error |-> "Only SELECT queries are allowed",
          connects |-> 0, executed |-> <<>>]
    ELSE IF ~HasValidIdentifiers(s)
    THEN [is_valid |-> FALSE, error |-> "Invalid table or column names in query",
          connects |-> 0, executed |-> <<>>]
    ELSE test_execution(s, engine)

(***************************************************************************)
(* SQLGeneratorAgent: generate and repair_sql                              *)
(***************************************************************************)
max_llm_attempts == 3

\* attempts_left=2 of repair_sql
repair_attempts == 2

\* "ERROR: Failed to generate valid SQL query"
ErrFailedToGenerate == <<"ERROR", ":", "Failed to generate valid SQL query">>

\* "ERROR: Required tables not found in schema"
ErrTablesNotFound == <<"ERROR", ":", "Required tables not found in schema">>

\* "ERROR: Accounts table not found in schema"
ErrAccountsNotFound == <<"ERROR", ":", "Accounts table not found in schema">>

\* f"ERROR: Pattern matching failed validation: {error_msg}"
ErrPatternFailedValidation == <<"ERROR", ":", "Pattern matching failed validation">>

\* the branch-and-manager template (its select list and clauses shortened)
BranchManagerSql ==
    <<"SELECT", "name", "FROM", "branches", "JOIN", "employees", ";">>

\* the SQL texts the LLM answers with
LlmSqls ==
    { <<"SELECT", "1", "FROM", "customers">>,
      <<"SELECT", "full_name", "FROM", "customers">>,
      <<"DROP", "customers">> }

\* what generate_text does: it returns None, it raises, it returns a text
\* that _parse_llm_response cannot use, or a text with SQLQuery and
\* Suggestion
LlmResponses ==
    { [kind |-> "none"], [kind |-> "raise"], [kind |-> "garbage"] }
        \cup { [kind |-> "sql", sql |-> s] : s \in LlmSqls }

\* the templates a question matches: branch and manager, both / multiple
\* account, or none
Questions == {"branch", "both", "other"}

\* the hint of repair_sql (None is its default) with the text the hint is
\* about
RepairInputs ==
    { [hint |-> "None", previous_sql |-> <<"DROP", "customers">>],
      [hint |-> "Only SELECT statements are allowed",
       previous_sql |-> <<"DROP", "customers">>],
      [hint |-> "no such column: full_name",
       previous_sql |-> <<"SELECT", "full_name", "FROM", "customers">>] }

\* gen_ctx["clarified_values"]: clarified_values or {}
ClarifiedValues == { <<>>, [min_balance |-> 50000] }

\* build_prompt(..., error_context=None): the prompt has no error_context
\* section; without a context build_prompt raises and prompt stays unbound
build_prompt(ctx, query) ==
    IF "isNone" \in DOMAIN ctx THEN UnboundPrompt
    ELSE [bound |-> TRUE, mode |-> "generate", query |-> query,
          original_sql |-> NoSql,
          error_message |-> "None", correction_focus |-> FALSE]

\* build_error_correction_prompt(error_context): the prompt holds the
\* previous SQL, the error message and the correction-focus checklist
build_error_correction_prompt(original_sql, error_msg) ==
    [bound |-> TRUE, mode |-> "correction", original_sql |-> original_sql,
     error_message |-> error_msg, correction_focus |-> TRUE]

\* _extract_problematic_columns
ProblematicColumns(error_msg) ==
    IF error_msg \in {"no such column: full_name",
                      "SQL execution error: no such column: full_name"}
    THEN {"full_name"} ELSE {}

\* sequence without the elements that are in a set
RECURSIVE Without(_, _)
Without(q, drop) ==
    IF q = <<>> THEN <<>>
    ELSE (IF Head(q) \in drop THEN <<>> ELSE <<Head(q)>>) \o Without(Tail(q), drop)

\* _create_simplified_query: the text from the first "select" on, with the
\* excluded columns removed between it and the first "from" after it
create_simplified_query(s, excluded) ==
    LET sel == { i \in 1..Len(s) : HasSelect(s[i]) }
    IN IF sel = {} THEN s
       ELSE LET select_start == CHOOSE i \in sel : \A j \in sel : i <= j
                frm == { i \in select_start..Len(s) : Upper(s[i]) = "FROM" }
            IN IF frm = {} THEN s
               ELSE LET from_start == CHOOSE i \in frm : \A j \in frm : i <= j
                    IN Without(SubSeq(s, select_start, from_start - 1), excluded)
                          \o SubSeq(s, from_start, Len(s))

\* _exclude_problematic_columns
exclude_problematic_columns(s, error_msg) ==
    IF ProblematicColumns(error_msg) = {} THEN s
    ELSE create_simplified_query(s, ProblematicColumns(error_msg))

\* the database after a call that opened and closed connections and ran
\* statements
DbAfter(d, connects, closed, executed) ==
    [connects |-> d.connects + connects, closed |-> d.closed + closed,
     executed |-> d.executed \o executed]

\* a correction that gave no SQL: control leaves the if at line 342 and
\* reaches the generate_text call of line 359 in the same attempt
FallThrough(g) == [g EXCEPT !.pc = "generate_text"]

\* attempts_left -= 1; attempt_number += 1; back to the while condition
NextAttempt(g) ==
    [g EXCEPT !.attempts_left = @ - 1, !.attempt_number = @ + 1,
              !.pc = IF g.attempts_left - 1 > 0 THEN "attempt" ELSE "heuristic"]

\* _try_llm_generation returns (True, sql, suggestion) and its caller
\* returns sql
Succeed(g, s) == [g EXCEPT !.pc = "returned", !.llm_success = TRUE, !.out = s]

\* generate is called: the context is created when there is none
CallGenerate ==
    /\ gen.pc = "idle"
    /\ \E q \in Questions, known \in BOOLEAN, cv \in ClarifiedValues :
          gen' = [GenIdle EXCEPT !.pc = "attempt", !.op = "generate",
                                 !.question = q, !.tables_known = known,
                                 !.clarified_values = cv,
                                 !.attempts_left = max_llm_attempts]
    /\ IF "isNone" \in DOMAIN context
       THEN context' = [query_history |-> <<>>] /\ added' = <<>>
       ELSE UNCHANGED <<context, added>>
    /\ UNCHANGED <<glog, db, max_retries, taskVars, planVars, pipeVars, compVars>>

\* repair_sql is called; get_error_context(None) raises inside the try and
\* repair_sql returns "SELECT 1;" at once
CallRepairSql ==
    /\ gen.pc = "idle"
    /\ \E in \in RepairInputs :
          gen' = IF in.hint = "None"
                 THEN [GenIdle EXCEPT !.pc = "returned", !.op = "repair_sql",
                                      !.previous_sql = in.previous_sql,
                                      !.out = SelectOne]
                 ELSE [GenIdle EXCEPT !.pc = "attempt", !.op = "repair_sql",
                                      !.hint = in.hint,
                                      !.previous_sql = in.previous_sql,
                                      !.attempts_left = repair_attempts]
    /\ UNCHANGED <<context, added, glog, db, max_retries, taskVars, planVars, pipeVars, compVars>>

\* _test_sql_execution: run_query(sql, limit=1), any exception turned
\* into a failed result
test_sql_execution(s, engine) ==
    LET x == run_query(s, 1, NoneCtx, engine)
    IN IF x.raised
       THEN [x EXCEPT !.res = [success |-> FALSE, error |-> engine.msg],
                      !.raised = FALSE]
       ELSE x

\* lines 359-403 for one answer of the LLM: the state of the call and what
\* validate_sql and the smoke execution did to the database
AfterGenerateText(g, resp, e1, e2) ==
    IF resp.kind # "sql"
    THEN [g |-> NextAttempt(g), connects |-> 0, closed |-> 0, executed |-> <<>>]
    ELSE LET v == validate_sql(resp.sql, e1)
             x == test_sql_execution(resp.sql, e2)
             g1 == [g EXCEPT !.current_sql = resp.sql]
         IN IF ~v.is_valid
            THEN [g |-> NextAttempt([g1 EXCEPT !.error_context = v.error]),
                  connects |-> v.connects, closed |-> 0, executed |-> v.executed]
            ELSE [g |-> IF Get(x.res, "success", FALSE)
                        THEN Succeed(g1, resp.sql)
                        ELSE NextAttempt([g1 EXCEPT !.error_context =
                                 Get(x.res, "error", "Execution failed")]),
                  connects |-> v.connects + x.connects,
                  closed |-> x.closed,
                  executed |-> v.executed \o x.executed]

\* the generate_text call of line 359: of the first attempt (after
\* build_prompt), of a later attempt without a current_sql, and of an
\* attempt whose correction gave no SQL; an unbound prompt raises and the
\* attempt is used up without a call
LlmGenerateOf(responses) ==
    /\ \/ gen.pc = "generate_text"
       \/ gen.pc = "attempt" /\ (gen.attempt_number = 1 \/ gen.current_sql = NoSql)
    /\ LET p == IF gen.pc = "attempt" /\ gen.attempt_number = 1
                THEN build_prompt(context, gen.question) ELSE gen.prompt
       IN IF ~p.bound
          THEN /\ gen' = NextAttempt(gen)
               /\ UNCHANGED <<glog, db>>
          ELSE /\ glog' = Append(glog, GenEvent("llm", gen.attempt_number, p))
               /\ \E resp \in responses, e1 \in EngineOutcomes, e2 \in EngineOutcomes :
                     LET r == AfterGenerateText([gen EXCEPT !.prompt = p], resp, e1, e2)
                     IN /\ gen' = r.g
                        /\ db' = DbAfter(db, r.connects, r.closed, r.executed)
    /\ UNCHANGED <<context, added, max_retries, taskVars, planVars, pipeVars, compVars>>

\* the attempt with the answers the LLM gives
LlmGenerate == LlmGenerateOf(LlmResponses)

\* _try_llm_error_correction and lines 342-352: a later attempt that has a
\* current_sql.  PromptingAgent of llm_prompt_builder_new.py has no
\* build_error_correction_prompt, there the call raises and the attempt is
\* used up without an LLM call; with a builder that has the method the
\* correction prompt is sent
LlmErrorCorrectionOf(responses) ==
    /\ gen.pc = "attempt"
    /\ gen.attempt_number >= 2
    /\ gen.current_sql # NoSql
    /\ \E built \in BOOLEAN, resp \in responses, e1 \in EngineOutcomes :
          IF ~built
          THEN gen' = NextAttempt(gen) /\ UNCHANGED <<glog, db>>
          ELSE /\ glog' = Append(glog, GenEvent("llm", gen.attempt_number,
                      build_error_correction_prompt(gen.current_sql, gen.error_context)))
               /\ IF resp.kind = "raise"
                  THEN gen' = NextAttempt(gen) /\ UNCHANGED db
                  ELSE IF resp.kind # "sql"
                  THEN gen' = FallThrough(gen) /\ UNCHANGED db
                  ELSE LET v == validate_sql(resp.sql, e1)
                           g1 == [gen EXCEPT !.current_sql = resp.sql]
                       IN /\ gen' = IF v.is_valid THEN Succeed(g1, resp.sql)
                                    ELSE NextAttempt([g1 EXCEPT !.error_context = v.error])
                          /\ db' = DbAfter(db, v.connects, 0, v.executed)
    /\ UNCHANGED <<context, added, max_retries, taskVars, planVars, pipeVars, compVars>>

\* the correction with the answers the LLM gives
LlmErrorCorrection == LlmErrorCorrectionOf(LlmResponses)

\* what the caller does when _try_llm_generation returned failure:
\* generate goes on to pattern matching, repair_sql returns "SELECT 1;"
AfterLlmFailure(g) ==
    IF g.op = "generate" THEN [g EXCEPT !.pc = "pattern"]
    ELSE [g EXCEPT !.pc = "returned", !.out = SelectOne]

\* a simplified text returned without looking at its validation
HeuristicOutcomeUnchecked(g, v, simplified_sql) == Succeed(g, simplified_sql)
\* lines 419-421: the simplified text is returned when it is valid
HeuristicOutcome(g, v, simplified_sql) ==
    IF v.is_valid THEN Succeed(g, simplified_sql) ELSE AfterLlmFailure(g)

\* lines 414-424: column exclusion after the last attempt
HeuristicRepair ==
    /\ gen.pc = "heuristic"
    /\ glog' = Append(glog, GenEvent("heuristic", 0, UnboundPrompt))
    /\ LET simplified_sql == exclude_problematic_columns(gen.current_sql, gen.error_context)
       IN IF gen.current_sql # NoSql /\ gen.error_context # "None"
             /\ simplified_sql # gen.current_sql
          THEN \E e1 \in EngineOutcomes :
                  LET v == validate_sql(simplified_sql, e1)
                  IN /\ gen' = HeuristicOutcome(gen, v, simplified_sql)
                     /\ db' = DbAfter(db, v.connects, 0, v.executed)
          ELSE gen' = AfterLlmFailure(gen) /\ UNCHANGED db
    /\ UNCHANGED <<context, added, max_retries, taskVars, planVars, pipeVars, compVars>>

\* _try_pattern_matching: the SQL it returns, or raised: the call
\* metadata_loader.get_column_values of line 465 names a method that
\* MetadataLoader does not have
try_pattern_matching(question, tables_known, engine) ==
    LET v == validate_sql(BranchManagerSql, engine)
        none == [raised |-> FALSE, connects |-> 0, executed |-> <<>>]
    IN CASE question = "branch" /\ ~tables_known ->
                none @@ [sql |-> ErrTablesNotFound]
         [] question = "branch" /\ tables_known ->
                [raised |-> FALSE, connects |-> v.connects, executed |-> v.executed,
                 sql |-> IF v.is_valid THEN BranchManagerSql
                         ELSE ErrPatternFailedValidation]
         [] question = "both" /\ ~tables_known ->
                none @@ [sql |-> ErrAccountsNotFound]
         [] question = "both" /\ tables_known ->
                [raised |-> TRUE, connects |-> 0, executed |-> <<>>, sql |-> NoSql]
         [] OTHER -> none @@ [sql |-> SelectOne]

\* lines 541-557 of generate: pattern matching after the LLM failed
PatternFallback ==
    /\ gen.pc = "pattern"
    /\ glog' = Append(glog, GenEvent("pattern", 0, UnboundPrompt))
    /\ \E e1 \in EngineOutcomes :
          LET r == try_pattern_matching(gen.question, gen.tables_known, e1)
              entry == [generated_sql |-> r.sql, was_successful |-> TRUE]
          IN /\ db' = DbAfter(db, r.connects, 0, r.executed)
             /\ IF r.raised
                THEN /\ gen' = [gen EXCEPT !.pc = "raised"]
                     /\ UNCHANGED <<context, added>>
                ELSE IF r.sql # SelectOne
                THEN /\ gen' = [gen EXCEPT !.pc = "returned", !.out = r.sql]
                     /\ context' = [context EXCEPT
                                      !.query_history = add_query_to_history(@, entry)]
                     /\ added' = Append(added, entry)
                ELSE /\ gen' = [gen EXCEPT !.pc = "returned", !.out = ErrFailedToGenerate]
                     /\ UNCHANGED <<context, added>>
    /\ UNCHANGED <<max_retries, taskVars, planVars, pipeVars, compVars>>

\* a generator whose prompting agent has no context yet, or has one
GeneratorInit ==
    /\ max_retries = MaxRetriesBound
    /\ InitPipe
    /\ InitPlan
    /\ InitComp
    /\ InitTasks
    /\ db = InitDb
    /\ context \in {NoneCtx, [query_history |-> <<>>]}
    /\ added = <<>>
    /\ gen = GenIdle
    /\ glog = <<>>

GeneratorNext ==
    \/ CallGenerate
    \/ CallRepairSql
    \/ LlmGenerate
    \/ LlmErrorCorrection
    \/ HeuristicRepair
    \/ PatternFallback

GeneratorSpec == GeneratorInit /\ [][GeneratorNext]_vars

(***************************************************************************)
(* The generator with an LLM that selects a column the table lacks, next   *)
(* to one it has, and names the missing column in WHERE as well            *)
(***************************************************************************)
\* the text of that LLM
TwoColumnSql ==
    <<"SELECT", "name", "full_name", "FROM", "customers", "WHERE", "full_name">>

\* generate_text returns None or that text
TwoColumnResponses == { [kind |-> "none"], [kind |-> "sql", sql |-> TwoColumnSql] }

LlmGenerateTwoColumn == LlmGenerateOf(TwoColumnResponses)

LlmErrorCorrectionTwoColumn == LlmErrorCorrectionOf(TwoColumnResponses)

ExclusionNext ==
    \/ CallGenerate
    \/ CallRepairSql
    \/ LlmGenerateTwoColumn
    \/ LlmErrorCorrectionTwoColumn
    \/ HeuristicRepair
    \/ PatternFallback

ExclusionSpec == GeneratorInit /\ [][ExclusionNext]_vars

(***************************************************************************)
(* Concurrent calls of generate on one SQLGeneratorAgent                   *)
(***************************************************************************)
Tasks == {1, 2}

\* a request that has not yet called generate
TaskIdle ==
    [pc |-> "idle", question |-> "other", tables_known |-> TRUE,
     read_from |-> 0, out |-> NoSql]

\* a generator used before: schema_tables is None until generate stores one,
\* the conversation context is empty
SharedInit ==
    [schema_tables |-> [writer |-> 0, tables_known |-> FALSE],
     current_query |-> [writer |-> 0, query |-> "None"]]

ConcurrentInit ==
    /\ max_retries = MaxRetriesBound
    /\ InitPipe
    /\ InitPlan
    /\ InitComp
    /\ db = InitDb
    /\ context = [query_history |-> <<>>]
    /\ added = <<>>
    /\ gen = GenIdle
    /\ glog = <<>>
    /\ tasks = [t \in Tasks |-> TaskIdle]
    /\ shared = SharedInit

\* generate, line 511: self.schema_tables = schema_tables
StoreSchemaTables(t) ==
    /\ tasks[t].pc = "idle"
    /\ \E q \in Questions, known \in BOOLEAN :
          /\ tasks' = [tasks EXCEPT ![t] = [@ EXCEPT !.pc = "context", !.question = q,
                                                      !.tables_known = known]]
          /\ shared' = [shared EXCEPT !.schema_tables =
                                          [writer |-> t, tables_known |-> known]]
    /\ UNCHANGED <<db, context, added, gen, glog, max_retries, planVars, pipeVars, compVars>>

\* generate, line 521: update_conversation_context("current_query", query)
UpdateConversationContext(t) ==
    /\ tasks[t].pc = "context"
    /\ tasks' = [tasks EXCEPT ![t] = [@ EXCEPT !.pc = "llm"]]
    /\ shared' = [shared EXCEPT !.current_query =
                                    [writer |-> t, query |-> tasks[t].question]]
    /\ UNCHANGED <<db, context, added, gen, glog, max_retries, planVars, pipeVars, compVars>>

\* generate, lines 535-539: _try_llm_generation gave an SQL text or failed
TryLlmGeneration(t) ==
    /\ tasks[t].pc = "llm"
    /\ \/ \E s \in LlmSqls :
             tasks' = [tasks EXCEPT ![t] = [@ EXCEPT !.pc = "returned", !.out = s]]
       \/ tasks' = [tasks EXCEPT ![t] = [@ EXCEPT !.pc = "pattern"]]
    /\ UNCHANGED <<shared, db, context, added, gen, glog, max_retries, planVars,
                   pipeVars, compVars>>

\* generate, lines 541-557: _try_pattern_matching reads self.schema_tables
TaskPatternFallback(t) ==
    /\ tasks[t].pc = "pattern"
    /\ \E e1 \in EngineOutcomes :
          LET r == try_pattern_matching(tasks[t].question,
                                        shared.schema_tables.tables_known, e1)
              entry == [generated_sql |-> r.sql, was_successful |-> TRUE]
              seen == [tasks[t] EXCEPT !.read_from = shared.schema_tables.writer]
          IN /\ db' = DbAfter(db, r.connects, 0, r.executed)
             /\ IF r.raised
                THEN /\ tasks' = [tasks EXCEPT ![t] = [seen EXCEPT !.pc = "raised"]]
                     /\ UNCHANGED <<context, added>>
                ELSE IF r.sql # SelectOne
                THEN /\ tasks' = [tasks EXCEPT ![t] =
                                     [seen EXCEPT !.pc = "returned", !.out = r.sql]]
                     /\ context' = [context EXCEPT
                                      !.query_history = add_query_to_history(@, entry)]
                     /\ added' = Append(added, entry)
                ELSE /\ tasks' = [tasks EXCEPT ![t] =
                                     [seen EXCEPT !.pc = "returned",
                                                  !.out = ErrFailedToGenerate]]
                     /\ UNCHANGED <<context, added>>
    /\ UNCHANGED <<shared, gen, glog, max_retries, planVars, pipeVars, compVars>>

ConcurrentNext ==
    \E t \in Tasks :
        \/ StoreSchemaTables(t)
        \/ UpdateConversationContext(t)
        \/ TryLlmGeneration(t)
        \/ TaskPatternFallback(t)

ConcurrentSpec == ConcurrentInit /\ [][ConcurrentNext]_vars

(***************************************************************************)
(* Concurrent calls of add_query_to_history on one PromptingAgent          *)
(***************************************************************************)
\* a task outside add_query_to_history
WriterIdle == [pc |-> "idle"]

SharedHistoryInit ==
    /\ max_retries = MaxRetriesBound
    /\ InitPipe
    /\ InitPlan
    /\ InitComp
    /\ db = InitDb
    /\ context = [query_history |-> <<>>]
    /\ added = <<>>
    /\ gen = GenIdle
    /\ glog = <<>>
    /\ tasks = [t \in Tasks |-> WriterIdle]
    /\ shared = <<>>

\* add_query_to_history, line 525: query_history.append(history_entry)
HistoryAppend(t) ==
    /\ tasks[t].pc = "idle"
    /\ Len(added) < MaxAdds
    /\ \E e \in HistoryEntries :
          /\ context' = [context EXCEPT !.query_history = Append(@, e)]
          /\ added' = Append(added, e)
    /\ tasks' = [tasks EXCEPT ![t] = [pc |-> "appended"]]
    /\ UNCHANGED <<shared, db, gen, glog, max_retries, planVars, pipeVars, compVars>>

\* add_query_to_history, lines 526-527: the length test and pop(0)
HistoryEvict(t) ==
    /\ tasks[t].pc = "appended"
    /\ context' = [context EXCEPT !.query_history = Evict(@)]
    /\ tasks' = [tasks EXCEPT ![t] = WriterIdle]
    /\ UNCHANGED <<shared, added, db, gen, glog, max_retries, planVars, pipeVars, compVars>>

SharedHistoryNext ==
    \E t \in Tasks : HistoryAppend(t) \/ HistoryEvict(t)

SharedHistorySpec == SharedHistoryInit /\ [][SharedHistoryNext]_vars

(***************************************************************************)
(* PlannerAgent.analyze_query called on its own                            *)
(***************************************************************************)
PlannerInit ==
    /\ max_retries = 0
    /\ metadata \in Metadatas
    /\ nl_query \in NlQueries
    /\ plan = <<>>
    /\ InitPipe
    /\ InitComp
    /\ InitTasks
    /\ InitGen
    /\ db = InitDb

CallAnalyzeQuery ==
    /\ cOp = "idle"
    /\ plan' = analyze_query(nl_query, metadata)
    /\ cOp' = "analyze_query"
    /\ UNCHANGED <<metadata, nl_query, cSql, cCtx, cOut, cLimit, cEngine, db,
                   max_retries, taskVars, pipeVars, genVars>>

PlannerNext == CallAnalyzeQuery

PlannerSpec == PlannerInit /\ [][PlannerNext]_vars

(***************************************************************************)
(* RetrieverAgent.fetch_schema_context called on its own                   *)
(***************************************************************************)
RetrieverInit ==
    /\ max_retries = 0
    /\ metadata \in Metadatas
    /\ nl_query = <<>>
    /\ plan = <<>>
    /\ InitPipe
    /\ InitTasks
    /\ InitGen
    /\ db = InitDb
    /\ cOp = "idle"
    /\ cSql = NoSql
    /\ cCtx = NoneCtx
    /\ cOut = <<>>
    /\ cLimit = 0
    /\ cEngine \in IndexOutcomes

CallFetchSchemaContext ==
    /\ cOp = "idle"
    /\ \E order \in Orders(IF cEngine.kind = "ok" THEN HitTables(cEngine.hits) ELSE {}) :
          cOut' = fetch_schema_context(cEngine, metadata, order)
    /\ cOp' = "fetch_schema_context"
    /\ UNCHANGED <<cSql, cCtx, cLimit, cEngine, db, max_retries, taskVars, planVars,
                   pipeVars, genVars>>

RetrieverNext == CallFetchSchemaContext

RetrieverSpec == RetrieverInit /\ [][RetrieverNext]_vars

(***************************************************************************)
(* SummarizerAgent.summarize called on its own                             *)
(***************************************************************************)
SummarizerInit ==
    /\ max_retries = 0
    /\ metadata = BankMetadata
    /\ nl_query \in SummaryQueries
    /\ plan = <<>>
    /\ pc = "plan"
    /\ sql = NoSql
    /\ attempts = 0
    /\ last_error = "None"
    /\ hint = "None"
    /\ validation_result = <<>>
    /\ exec_result \in ExecutionResults
    /\ diag = PipelineDiagnostics
    /\ result = <<>>
    /\ trace = <<>>
    /\ InitComp
    /\ InitTasks
    /\ InitGen
    /\ db = InitDb

CallSummarize ==
    /\ cOp = "idle"
    /\ cOut' = summarize(nl_query, exec_result)
    /\ cOp' = "summarize"
    /\ UNCHANGED <<cSql, cCtx, cLimit, cEngine, db, max_retries, taskVars, planVars,
                   pipeVars, genVars>>

SummarizerNext == CallSummarize

SummarizerSpec == SummarizerInit /\ [][SummarizerNext]_vars

(***************************************************************************)
(* NL2SQLPipeline.run while the LLM gives no usable response and the       *)
(* question matches no template                                            *)
(***************************************************************************)
\* generate: the LLM attempts fail, _try_pattern_matching returns "SELECT 1;"
\* and generate returns its error string (lines 535-557)
GenerateLlmDown == GenerateFrom({ErrFailedToGenerate})

\* repair_sql: the LLM attempts fail and repair_sql returns "SELECT 1;"
\* (lines 561-580)
RepairLlmDown == RepairFrom({SelectOne})

LlmDownNext ==
    \/ Plan
    \/ Retrieve
    \/ GenerateLlmDown
    \/ Validate
    \/ RepairLlmDown
    \/ Execute
    \/ Summarize
    \/ ReturnFailure
    \/ StageRaises

LlmDownSpec == Init /\ [][LlmDownNext]_vars

(***************************************************************************)
(* The pipeline validator and the generator's validator on the same texts  *)
(***************************************************************************)
\* SQLValidator.validate_sql called on its own
CallValidateSql ==
    /\ cOp = "idle"
    /\ cOp' = "validate_sql"
    /\ \E engine \in EngineOutcomes :
          LET v == validate_sql(cSql, engine)
          IN /\ cOut' = [is_valid |-> v.is_valid, error |-> v.error]
             /\ cEngine' = engine
             /\ db' = DbAfter(db, v.connects, 0, v.executed)
    /\ UNCHANGED <<cSql, cCtx, cLimit, max_retries, taskVars, planVars, pipeVars, genVars>>

BothValidatorsNext == CallValidate \/ CallValidateSql

BothValidatorsSpec == ValidatorInit /\ [][BothValidatorsNext]_vars

(***************************************************************************)
(* SQLGenerator._parse_llm_response called on its own.  A response text is *)
(* a sequence of characters; the key and the punctuation json.dumps writes *)
(* around a field, and the tag json, are one element each.                 *)
(***************************************************************************)
\* the longest SQLQuery text tried
MaxTextLen == 4

\* the backtick character
Backtick == "bt"

\* the characters of the fields: a letter and a backtick
TextChars == {"a", Backtick}

\* the characters str.strip() removes
White == {" ", "\n"}

\* the texts of one to n characters
Texts(n) == UNION { [1..k -> TextChars] : k \in 1..n }

\* the response objects: both fields present, strings, not empty
ResponseObjects ==
    { [SQLQuery |-> q, Suggestion |-> <<"a">>] : q \in Texts(MaxTextLen) }

\* json.dumps(x)
Dumps(x) ==
    <<"{SQLQuery:">> \o x.SQLQuery \o <<",Suggestion:">> \o x.Suggestion \o <<"}">>

\* the marker of a fenced code block
Fence == <<Backtick, Backtick, Backtick>>

\* the ways the LLM writes x: raw, in a fenced block tagged json, in a
\* fenced block with no tag
Wraps(x) ==
    { Dumps(x),
      Fence \o <<"json", "\n">> \o Dumps(x) \o <<"\n">> \o Fence,
      Fence \o <<"\n">> \o Dumps(x) \o <<"\n">> \o Fence }

RECURSIVE LStrip(_, _)
\* str.lstrip(chars)
LStrip(t, chars) ==
    IF t # <<>> /\ Head(t) \in chars THEN LStrip(Tail(t), chars) ELSE t

RECURSIVE RStrip(_, _)
\* str.rstrip(chars)
RStrip(t, chars) ==
    IF t # <<>> /\ t[Len(t)] \in chars
    THEN RStrip(SubSeq(t, 1, Len(t) - 1), chars)
    ELSE t

\* str.strip(chars)
Strip(t, chars) == RStrip(LStrip(t, chars), chars)

\* t.startswith(prefix)
StartsWith(t, prefix) ==
    Len(t) >= Len(prefix) /\ SubSeq(t, 1, Len(prefix)) = prefix

\* the places at or after from where the marker begins
FencesFrom(t, from) ==
    { i \in from..(Len(t) - 2) : SubSeq(t, i, i + 2) = Fence }

\* t.find(marker, from): the first place, 0 where str.find answers -1
Find(t, from) ==
    IF FencesFrom(t, from) = {} THEN 0
    ELSE CHOOSE i \in FencesFrom(t, from) : \A j \in FencesFrom(t, from) : i <= j

\* lines 158-171: the text between the opening marker, n elements long,
\* and the first marker after it
Unfenced(t, n) ==
    LET end_marker == Find(t, n + 1)
    IN IF end_marker # 0
       THEN Strip(SubSeq(t, n + 1, end_marker - 1), White)
       ELSE Strip(SubSeq(t, n + 1, Len(t)), White)

\* _clean_llm_response(response)
clean_llm_response(response) ==
    LET stripped == Strip(response, White)
        cleaned == IF StartsWith(stripped, Fence \o <<"json">>)
                   THEN Unfenced(stripped, 4)
                   ELSE IF StartsWith(stripped, Fence)
                   THEN Unfenced(stripped, 3)
                   ELSE stripped
    IN Strip(cleaned, {Backtick})

\* the places of the second key in t
Seconds(t) == { i \in 1..Len(t) : t[i] = ",Suggestion:" }

\* json.loads(t): the object, or JSONDecodeError
json_loads(t) ==
    LET u == Strip(t, White)
    IN IF /\ Len(u) >= 3
          /\ u[1] = "{SQLQuery:"
          /\ u[Len(u)] = "}"
          /\ Cardinality(Seconds(u)) = 1
          /\ \A i \in 2..(Len(u) - 1) : i \in Seconds(u) \/ u[i] \in TextChars
       THEN LET k == CHOOSE i \in Seconds(u) : TRUE
            IN [ok |-> TRUE,
                SQLQuery |-> SubSeq(u, 2, k - 1),
                Suggestion |-> SubSeq(u, k + 1, Len(u) - 1)]
       ELSE [ok |-> FALSE]

\* the pair (None, None)
NoneNone == [sql_query |-> NoSql, suggestion |-> NoSql]

\* _parse_llm_response(response)
parse_llm_response(response) ==
    LET response_json == json_loads(clean_llm_response(response))
    IN IF ~response_json.ok
       THEN NoneNone
       ELSE LET sql_query == Strip(response_json.SQLQuery, White)
                suggestion == Strip(response_json.Suggestion, White)
            IN IF sql_query = <<>> \/ suggestion = <<>>
               THEN NoneNone
               ELSE [sql_query |-> sql_query, suggestion |-> suggestion]

\* cCtx is the response object, cSql the text the LLM wrote for it
ParserInit ==
    /\ max_retries = 0
    /\ metadata = BankMetadata
    /\ nl_query = <<>>
    /\ plan = <<>>
    /\ pc = "plan"
    /\ sql = NoSql
    /\ attempts = 0
    /\ last_error = "None"
    /\ hint = "None"
    /\ validation_result = <<>>
    /\ exec_result = <<>>
    /\ diag = PipelineDiagnostics
    /\ result = <<>>
    /\ trace = <<>>
    /\ cOp = "idle"
    /\ cCtx \in ResponseObjects
    /\ cSql \in UNION { Wraps(x) : x \in ResponseObjects }
    /\ cSql \in Wraps(cCtx)
    /\ cOut = <<>>
    /\ cLimit = 0
    /\ cEngine = <<>>
    /\ InitTasks
    /\ InitGen
    /\ db = InitDb

CallParseLlmResponse ==
    /\ cOp = "idle"
    /\ cOut' = parse_llm_response(cSql)
    /\ cOp' = "parse_llm_response"
    /\ UNCHANGED <<cSql, cCtx, cLimit, cEngine, db, max_retries, taskVars, planVars,
                   pipeVars, genVars>>

ParserNext == CallParseLlmResponse

ParserSpec == ParserInit /\ [][ParserNext]_vars

(***************************************************************************)
(* Properties of run                                                       *)
(***************************************************************************)
\* number of calls of a stage that run made so far
Calls(stage) == Cardinality({ i \in 1..Len(trace) : trace[i].stage = stage })

RunEndsWithinBudget ==
    /\ Calls("validate") <= max_retries + 1
    /\ Calls("execute") <= max_retries + 1
    /\ Calls("repair") <= max_retries
    /\ Len(trace) <= 3 * max_retries + 6

\* a run that returned after using its whole budget of repairs
WitnessBudgetUsedUp ==
    /\ pc = "returned"
    /\ max_retries > 0
    /\ Calls("repair") = max_retries
    /\ Calls("validate") = max_retries + 1

\* C5: when run has returned, with success or failure,
\* diagnostics.retries is at most max_retries + 1.
RetriesBoundedAtReturn ==
    pc = "returned" => diag.retries <= max_retries + 1

\* a run that returned with retries at the bound
WitnessRetriesAtBound ==
    /\ pc = "returned"
    /\ diag.retries = max_retries + 1

\* C6: run never raises to its caller; when a stage raises, run still
\* returns a result with success = false and an error string.
RunNeverRaises == pc # "raised"

\* C7: when the retry budget is exhausted, run returns success = false and
\* its error is the message of the last failure of the request (the
\* validator's reason when the validator rejected the last attempt).
FailureErrorIsLastFailure ==
    (pc = "returned" /\ ~result.success) => result.error = hint

\* C9: a text that names a column missing from the schema is rejected by
\* validate and is never passed to run_query.
AllColumns == UNION { SchemaColumns[t] : t \in DOMAIN SchemaColumns }

NamesUnknownColumn(s) ==
    \E i \in 1..Len(s) :
        /\ Kind(s[i]) = "name"
        /\ ~(i > 1 /\ s[i - 1] = "FROM")
        /\ s[i] \notin AllColumns

UnknownColumnNeverPasses ==
    \A i \in 1..Len(trace) :
        NamesUnknownColumn(trace[i].sql) =>
            /\ trace[i].stage = "validate" => ~trace[i].ok
            /\ trace[i].stage # "execute"

\* C18: the stage calls of one run are made one after the other in the
\* order plan, retrieve, generate and then validate, execute, summarize
\* (with repair between attempts): validate is given what generate or
\* repair just returned, no text is executed before a validate call of that
\* text, and summarize is called only right after an execute call that
\* returned success.
StagesInOrder ==
    \A i \in 1..Len(trace) :
        /\ i = 1 => trace[i].stage = "plan"
        /\ i = 2 => trace[i].stage = "retrieve"
        /\ i = 3 => trace[i].stage = "generate"
        /\ i > 3 => trace[i].stage \in {"validate", "repair", "execute", "summarize"}
        /\ i > 1 => (trace[i - 1].ok \/ trace[i - 1].stage \in {"validate", "execute"})
        /\ trace[i].stage = "validate" =>
              /\ trace[i - 1].stage \in {"generate", "repair"}
              /\ trace[i - 1].sql = trace[i].sql
        /\ trace[i].stage = "execute" =>
              \E j \in 1..(i - 1) :
                  trace[j].stage = "validate" /\ trace[j].sql = trace[i].sql
        /\ trace[i].stage = "summarize" =>
              /\ trace[i - 1].stage = "execute"
              /\ trace[i - 1].ok
              /\ trace[i - 1].sql = trace[i].sql

\* a successful run that went through every stage, repair included
WitnessAllStagesRan ==
    /\ pc = "returned"
    /\ result.success
    /\ trace[Len(trace)].stage = "summarize"
    /\ Calls("repair") > 0
    /\ Calls("execute") > 1

(***************************************************************************)
(* Properties of validate                                                  *)
(***************************************************************************)
\* the keywords the validator rules forbid
ForbiddenKeywords ==
    { "DROP", "DELETE", "TRUNCATE", "UPDATE", "INSERT", "ALTER", "CREATE",
      "MODIFY", "RENAME", "REPLACE", "GRANT", "REVOKE", "ATTACH", "DETACH",
      "PRAGMA" }

\* C2: validate rejects every text in which a forbidden keyword is a
\* token, in any letter case and at any position.
ForbiddenKeywordRejected ==
    (cOp = "validate" /\ \E i \in 1..Len(cSql) : Upper(cSql[i]) \in ForbiddenKeywords)
        => ~cOut.is_valid

\* the first lexeme that is not a comment, upper-cased; "" when there is none
FirstSignificant(s) ==
    LET idx == { i \in 1..Len(s) : Kind(s[i]) # "comment" }
    IN IF idx = {} THEN "" ELSE Upper(s[CHOOSE i \in idx : \A j \in idx : i <= j])

\* C3: validate accepts only texts whose first significant token is
\* SELECT or WITH.
AcceptedStartsWithReadOnlyVerb ==
    (cOp = "validate" /\ cOut.is_valid) => FirstSignificant(cSql) \in {"SELECT", "WITH"}

\* a name after FROM that is a table of the schema
KnownTableAfterFrom(s) ==
    \E i \in 1..Len(s) - 1 :
        s[i] = "FROM" /\ \E k \in 1..Len(schema_tables) : s[i + 1] = schema_tables[k]

\* SELECT followed by number literals only (and a closing ";")
ConstantSelect(s) ==
    /\ Len(s) >= 2
    /\ s[1] = "SELECT"
    /\ s[2] = "1"
    /\ \A i \in 3..Len(s) : s[i] = "1" \/ (s[i] = ";" /\ i = Len(s))

\* C10: validate rejects a SELECT in which no name after FROM is a known
\* table, unless it is a constant-expression SELECT.
SelectWithoutKnownTableRejected ==
    (/\ cOp = "validate"
     /\ Len(cSql) > 0 /\ cSql[1] = "SELECT"
     /\ ~KnownTableAfterFrom(cSql)
     /\ ~ConstantSelect(cSql))
        => ~cOut.is_valid

\* C11: for a statement that performs a forbidden operation (its first
\* word is DROP, DELETE, UPDATE, INSERT or ALTER), validate returns
\* is_valid = false with the error message that names that keyword.
ForbiddenStatementErrorNamesKeyword ==
    (/\ cOp = "validate"
     /\ Len(cSql) > 0
     /\ \E k \in 1..Len(forbidden) : Upper(cSql[1]) = forbidden[k])
        => /\ ~cOut.is_valid
           /\ cOut.error = ForbiddenMessage(Upper(cSql[1]))

\* C12: validate accepts a single statement that begins with WITH, defines
\* a CTE and selects from it, and tables_used holds every known table the
\* statement mentions.
CteAccepted ==
    (cOp = "validate" /\ cSql \in CteSqls)
        => /\ cOut.is_valid
           /\ cOut.tables_used = <<"customers">>

(***************************************************************************)
(* Properties of run_query                                                 *)
(***************************************************************************)
\* C8: run_query given a validation context whose is_valid is not true
\* returns the failed-validation result and leaves the database alone.
UnvalidatedContextNeverTouchesDb ==
    (cOp = "run_query" /\ "isNone" \notin DOMAIN cCtx /\ ~Get(cCtx, "is_valid", FALSE))
        => /\ ~cOut.success
           /\ cOut.error = "Query failed validation"
           /\ db.connects = 0
           /\ db.executed = <<>>

\* C20: when run_query has returned, every connection it opened has been
\* closed, on the path where executing the SQL raised as on the others.
ConnectionsClosedOnReturn ==
    cOp = "run_query" => db.closed = db.connects

(***************************************************************************)
(* Properties of generate and repair_sql                                   *)
(***************************************************************************)
\* the LLM calls made so far, and those made in attempt k
LlmCalls == { i \in 1..Len(glog) : glog[i].ev = "llm" }

LlmCallsOf(k) == { i \in LlmCalls : glog[i].attempt = k }

\* C13: generate and repair_sql never raise; when the LLM attempts, the
\* column exclusion and the pattern matching all failed, what they return
\* is "SELECT 1;" or a text that validate rejects.
GeneratorFailsSafe ==
    /\ gen.pc # "raised"
    /\ (gen.pc = "returned" /\ ~gen.llm_success /\ gen.out # BranchManagerSql)
          => (gen.out = SelectOne \/ ~validate(gen.out).is_valid)

\* C14: one generate call makes at most max_llm_attempts LLM calls: every
\* attempt that was used up made exactly one, the attempt in progress at
\* most one.
OneLlmCallPerAttempt ==
    gen.op = "generate" =>
        /\ Cardinality(LlmCalls) <= max_llm_attempts
        /\ \A k \in 1..max_llm_attempts :
              /\ Cardinality(LlmCallsOf(k)) <= 1
              /\ k < gen.attempt_number => Cardinality(LlmCallsOf(k)) = 1

\* C15: when generate or repair_sql has ended after its last LLM attempt
\* failed and column exclusion gave no valid SQL, column exclusion was
\* tried first and pattern matching was consulted after it.
FallbacksTriedInOrder ==
    (gen.pc \in {"returned", "raised"} /\ gen.attempt_number > 1 /\ ~gen.llm_success)
        => \E i, j \in 1..Len(glog) :
              /\ i < j
              /\ glog[i].ev = "heuristic"
              /\ glog[j].ev = "pattern"

\* C16: when generate returns from pattern matching it returns the SQL of
\* the template that matched the question and validated, and "SELECT 1;"
\* in every other case.
PatternFallbackReturnsTemplateOrSelectOne ==
    (gen.pc = "returned" /\ Len(glog) > 0 /\ glog[Len(glog)].ev = "pattern")
        => /\ gen.out \in {BranchManagerSql, SelectOne}
           /\ gen.out = BranchManagerSql =>
                 (gen.question = "branch" /\ gen.tables_known)

\* C17: every prompt a repair_sql call sends to the LLM holds the failing
\* SQL, the error message given as hint and the correction-focus
\* checklist.
RepairPromptCarriesFailure ==
    gen.op = "repair_sql" =>
        \A i \in LlmCalls :
            /\ glog[i].prompt.correction_focus
            /\ glog[i].prompt.original_sql = gen.previous_sql
            /\ glog[i].prompt.error_message = gen.hint

(***************************************************************************)
(* Properties of the history ring                                          *)
(***************************************************************************)
\* the last n elements of a sequence (all of it when it is shorter)
LastN(q, n) == SubSeq(q, Len(q) - Min(Len(q), n) + 1, Len(q))

\* C19: after any sequence of add_query_to_history calls the history holds
\* at most max_history entries, and they are the entries added last, in the
\* order they were added.
HistoryHoldsNewestEntries ==
    "isNone" \notin DOMAIN context =>
        /\ Len(context.query_history) <= max_history
        /\ context.query_history = LastN(added, max_history)

\* more entries were added than the ring holds, and the oldest one, which
\* differs from the oldest kept, is gone
WitnessOldestEvicted ==
    /\ "isNone" \notin DOMAIN context
    /\ Len(added) > max_history + 1
    /\ Len(context.query_history) = max_history
    /\ added[1] # context.query_history[1]
    /\ added[Len(added) - max_history] # added[Len(added)]

\* the call went past the validation guard of run_query
GuardPassed == Truthy(cCtx) => Get(cCtx, "is_valid", FALSE)

\* C21: run_query never raises; a failure to connect or to execute comes
\* back as a result with success = false whose error is the message of the
\* database engine.
RunQueryNeverRaises ==
    /\ cOp # "run_query raised"
    /\ (cOp = "run_query" /\ GuardPassed /\ cEngine.kind # "ok")
          => (~cOut.success /\ cOut.error = cEngine.msg)

\* C22: run_query returns at most limit rows, and exactly limit rows with
\* success = true when the result of the statement has more.
RowCapHolds ==
    (cOp = "run_query" /\ GuardPassed /\ cEngine.kind = "ok")
        => /\ cOut.success
           /\ cOut.results <= cLimit
           /\ cEngine.nrows > cLimit => cOut.results = cLimit

\* a validated statement with more rows than the pipeline's limit was run
\* and came back cut to the limit
WitnessRowsCut ==
    /\ cOp = "run_query"
    /\ Truthy(cCtx)
    /\ GuardPassed
    /\ cLimit = sql_row_limit
    /\ cEngine.kind = "ok"
    /\ cEngine.nrows > sql_row_limit
    /\ cOut.results = sql_row_limit

(***************************************************************************)
(* Properties of the planner                                               *)
(***************************************************************************)
\* the tables of the loaded metadata
SchemaMetadataKeys == Range(MetadataTables(metadata))

\* C23: every result run returns with success = true has in tables_used
\* only tables that are keys of the schema metadata.
TablesUsedAreMetadataKeys ==
    (pc = "returned" /\ result.success)
        => Range(result.tables_used) \subseteq SchemaMetadataKeys

\* the text is empty or white space only
WhitespaceOnly(q) == Range(q) \subseteq {" "}

\* C28: for an empty or whitespace-only question the plan has all known
\* tables, no capabilities and no clarifications, and run on that question
\* ends within its budget of stage calls.
BlankQuestionPlansAllTables ==
    WhitespaceOnly(nl_query)
        => /\ pc # "plan" /\ plan # <<>>
              => /\ plan.tables = schema_tables
                 /\ plan.capabilities = {}
                 /\ plan.clarifications = <<>>
                 /\ diag.chosen_tables = schema_tables
           /\ Len(trace) <= 3 * max_retries + 6
           /\ pc = "returned" => Get(result, "tables_used", schema_tables) = schema_tables

\* run returned a result for a question of white space
WitnessBlankQuestionReturned ==
    /\ nl_query = <<" ">>
    /\ pc = "returned"
    /\ plan.tables = schema_tables
    /\ plan.capabilities = {}
    /\ plan.clarifications = <<>>

\* the question names no schema table and no enumerated value of the metadata
NoTableNoValue(q, md) ==
    /\ \A t \in Range(schema_tables) : ~In(t, q)
    /\ \A i \in 1..Len(md) : \A j \in 1..Len(md[i].columns) :
           \A v \in Range(md[i].columns[j].distinct_values) : ~In(v, q)

HeuristicWords == {"customer", "account", "transaction", "employee", "branch"}

ClarifiedFields(p) == {p.clarifications[i].field : i \in 1..Len(p.clarifications)}

\* C30: a date-range clarification is emitted only for a question without
\* a year token: a question that contains a year never gets one.
DateRangeOnlyWithoutYear ==
    (cOp = "analyze_query" /\ HasYear(nl_query))
        => "date_range" \notin ClarifiedFields(plan)

(***************************************************************************)
(* Properties of generate: clarified values                                *)
(***************************************************************************)
\* C24: when generate is given clarified_values = {min_balance: 50000},
\* every prompt sent to the LLM for that call is built from it (the prompt
\* carries the clarified value).
ClarifiedValueReachesPrompt ==
    \A i \in 1..Len(glog) :
        (gen.op = "generate" /\ Truthy(gen.clarified_values) /\ glog[i].ev = "llm")
            => /\ "clarified_values" \in DOMAIN glog[i].prompt
               /\ glog[i].prompt.clarified_values = gen.clarified_values

(***************************************************************************)
(* Properties of shared instances under concurrent requests                *)
(***************************************************************************)
\* C25: with two requests served concurrently by the same generator, the
\* generation of one request never reads a schema value that the other
\* request wrote to the shared instance.
NoCrossRequestReads ==
    \A t \in DOMAIN tasks :
        "read_from" \in DOMAIN tasks[t] => tasks[t].read_from \in {0, t}

\* C26: with one PromptingAgent shared by concurrent tasks, a task that is
\* not inside its own add_query_to_history never finds more than
\* max_history entries in the ring.
HistoryWritesAtomic ==
    \A t \in DOMAIN tasks :
        ("read_from" \notin DOMAIN tasks[t] /\ tasks[t].pc = "idle")
            => Len(context.query_history) <= max_history

(***************************************************************************)
(* Properties of fetch_schema_context                                      *)
(***************************************************************************)
\* the index gave nothing: it raised or returned no document
IndexFailed == cEngine.kind = "raises" \/ cEngine.hits = <<>>

RECURSIVE TableChunks(_)
\* the tables of the table chunks of a schema context, in order
TableChunks(ctx) ==
    IF ctx = <<>> THEN <<>>
    ELSE IF Head(ctx).kind = "table"
         THEN <<Head(ctx).table>> \o TableChunks(Tail(ctx))
         ELSE TableChunks(Tail(ctx))

ConstantSelectAccepted ==
    (cOp = "validate" /\ ConstantSelect(cSql))
        => /\ cOut.is_valid
           /\ DOMAIN cOut = {"is_valid", "warning", "tables_used"}
           /\ cOut.tables_used = <<>>
           /\ cOut.warning = "No known tables referenced"

\* validate returned for SELECT 1
WitnessSelectOneValidated ==
    /\ cOp = "validate"
    /\ cSql = <<"SELECT", "1">>
    /\ cOut.is_valid
    /\ cOut.tables_used = <<>>

(***************************************************************************)
(* Properties of summarize                                                 *)
(***************************************************************************)
\* C33: for a failed execution result summarize returns a Query Failed
\* message with exactly three suggestions, and for a successful execution
\* result without rows a No Results Found message with exactly three
\* suggestions.
FailureAndEmptySummaries ==
    cOp = "summarize"
        => /\ ("success" \in DOMAIN exec_result /\ ~exec_result.success)
                => /\ cOut.summary.heading = "Query Failed"
                   /\ cOut.summary.error = exec_result.error
                   /\ Len(cOut.suggestions) = 3
           /\ ("success" \in DOMAIN exec_result /\ exec_result.success
                  /\ Get(exec_result, "results", 0) = 0)
                => /\ cOut.summary.heading = "No Results Found"
                   /\ Len(cOut.suggestions) = 3
                   /\ cOut.suggestions # FailureSuggestions

\* summarize answered a failed result
WitnessQueryFailedSummary ==
    /\ cOp = "summarize"
    /\ exec_result = [success |-> FALSE, error |-> "no such table: orders"]
    /\ cOut.summary.heading = "Query Failed"
    /\ Len(cOut.suggestions) = 3

(***************************************************************************)
(* Properties of fetch_schema_context: the order of tables_found           *)
(***************************************************************************)
RECURSIVE MatchedTables(_)
\* the tables named by the metadatas of the hits, in the order of the hits
MatchedTables(hits) ==
    IF hits = <<>> THEN <<>>
    ELSE IF Head(hits).table = "None" THEN MatchedTables(Tail(hits))
         ELSE <<Head(hits).table>> \o MatchedTables(Tail(hits))

\* C39: tables_found of fetch_schema_context holds each matched table
\* exactly once, in the order in which the tables were first matched.
TablesFoundInMatchOrder ==
    (cOp = "fetch_schema_context" /\ cEngine.kind = "ok" /\ cEngine.hits # <<>>)
        => cOut.tables_found = Unique(MatchedTables(cEngine.hits))

(***************************************************************************)
(* Properties of run: diagnostics.final_sql                                *)
(***************************************************************************)
\* C36: when run returns, diagnostics.final_sql is set if and only if the
\* result has success = true, and then it equals the returned sql, which is
\* the text of the most recent validate call, accepted there, and of the
\* most recent run_query call, which succeeded.
FinalSqlIffSuccess ==
    pc = "returned"
        => /\ (diag.final_sql # NoSql) <=> result.success
           /\ result.success
                => /\ diag.final_sql = result.sql
                   /\ Len(trace) >= 3
                   /\ LET n == Len(trace)
                      IN /\ trace[n - 1] = Event("execute", result.sql, TRUE)
                         /\ trace[n - 2] = Event("validate", result.sql, TRUE)

\* a run that succeeded after a repair, and a final_sql that differs from
\* the generated one
WitnessFinalSqlAfterRepair ==
    /\ pc = "returned"
    /\ result.success
    /\ diag.final_sql = result.sql
    /\ diag.final_sql # diag.generated_sql
    /\ Calls("repair") > 0

(***************************************************************************)
(* Properties of run while the LLM is down                                 *)
(***************************************************************************)
\* C34: when every LLM call of the request fails and no template matches
\* the question, a run that returns has success = false: it never returns
\* success = true with the placeholder SELECT 1; as its SQL.
LlmDownRunFails ==
    pc = "returned" => ~result.success

(***************************************************************************)
(* Properties of the forbidden-keyword rules                               *)
(***************************************************************************)
\* the words either validator forbids
AllForbidden == ForbiddenKeywords \cup DANGEROUS_KEYWORDS

\* a select in which no lexeme is a forbidden word, while one occurs inside
\* an identifier or a string literal
ForbiddenOnlyEmbedded(s) ==
    /\ Len(s) > 0 /\ s[1] = "SELECT"
    /\ \A i \in 1..Len(s) : Upper(s[i]) \notin AllForbidden
    /\ \E i \in 1..Len(s) : KeywordsIn(s[i]) # {}

\* the errors of the two forbidden-keyword rules
KeywordRuleErrors ==
    { ForbiddenMessage(forbidden[k]) : k \in 1..Len(forbidden) }
    \cup { DangerousMessage(k) : k \in {"DROP", "DELETE", "TRUNCATE", "CREATE", "UPDATE"} }

\* C35: neither the pipeline validator nor the generator's validator
\* rejects, by its forbidden-keyword rule, a SELECT in which a forbidden
\* word occurs only as part of a longer identifier or inside a string
\* literal.
KeywordRuleOnStandaloneTokensOnly ==
    (cOp \in {"validate", "validate_sql"} /\ ForbiddenOnlyEmbedded(cSql))
        => (cOut.is_valid \/ cOut.error \notin KeywordRuleErrors)

(***************************************************************************)
(* Properties of _parse_llm_response                                       *)
(***************************************************************************)
\* C31: parsing the text written for a valid response object, raw or in a
\* fenced block with or without the json tag, yields the object's SQLQuery
\* and Suggestion, also when the SQLQuery holds backticks.
ParseYieldsTheObject ==
    cOp = "parse_llm_response"
        => cOut = [sql_query |-> cCtx.SQLQuery, suggestion |-> cCtx.Suggestion]

(***************************************************************************)
(* Properties of the column exclusion                                      *)
(***************************************************************************)
\* the text the column exclusion keeps of s: the lexemes before the FROM
\* at place f that are not in cols, then everything from f on
KeptOf(s, f, cols) ==
    SelectSeq(SubSeq(s, 1, f - 1), LAMBDA l : l \notin cols) \o SubSeq(s, f, Len(s))

IsErrorSentinel(t) == Len(t) > 0 /\ t[1] = "ERROR"

\* C37: every entry written to the history with was_successful = true
\* holds an SQL, never one of the ERROR strings.
SuccessfulHistoryHoldsSql ==
    "query_history" \in DOMAIN context =>
        \A i \in 1..Len(context.query_history) :
            context.query_history[i].was_successful
                => ~IsErrorSentinel(context.query_history[i].generated_sql)

====
